---------------------------- MODULE Spec2Model ----------------------------
(***************************************************************************)
(* Research-paper tracker: the paper service (create / update / archive /  *)
(* list), the analytics service and the query predicate they share,        *)
(* modelled from apps/backend/src/services.                                *)
(*                                                                         *)
(* Time is counted in seconds since 2024-01-01T00:00:00 local time (a      *)
(* Monday); the server's time zone has no daylight-saving shifts.  A Date  *)
(* is the number of seconds since that instant.                            *)
(***************************************************************************)
EXTENDS Integers, Sequences, FiniteSets, Bags, TLC

VARIABLES
    papers,     \* the Paper table: a sequence of rows in insertion order
    now,        \* the wall clock, in seconds since the epoch above
    resp,       \* the outcome of the service call that ended last
    calls,      \* the bag of the calls in flight (interleaved specification); in the
                \* limiter specification, of the requests in flight and answered
    rateLimitStore  \* rateLimiter.ts: owner -> the counters of its read and write windows

vars == <<papers, now, resp, calls, rateLimitStore>>

-----------------------------------------------------------------------------
(* Enumerations *)

ABSTRACT_READ     == "Abstract Read"
INTRODUCTION_DONE == "Introduction Done"
METHODOLOGY_DONE  == "Methodology Done"
RESULTS_ANALYZED  == "Results Analyzed"
FULLY_READ        == "Fully Read"
NOTES_COMPLETED   == "Notes Completed"

COMPUTER_SCIENCE == "Computer Science"
BIOLOGY          == "Biology"
PHYSICS          == "Physics"
CHEMISTRY        == "Chemistry"
MATHEMATICS      == "Mathematics"
SOCIAL_SCIENCES  == "Social Sciences"

HIGH_IMPACT   == "High Impact"
MEDIUM_IMPACT == "Medium Impact"
LOW_IMPACT    == "Low Impact"
UNKNOWN       == "Unknown"

\* The order of the ReadingStage enumeration and of computeFunnelData's allStages.
allStages ==
    <<ABSTRACT_READ, INTRODUCTION_DONE, METHODOLOGY_DONE,
      RESULTS_ANALYZED, FULLY_READ, NOTES_COMPLETED>>

\* The order of computeStackedBarData's and computeSummaryMetrics' allDomains.
allDomains ==
    <<COMPUTER_SCIENCE, BIOLOGY, PHYSICS, CHEMISTRY, MATHEMATICS, SOCIAL_SCIENCES>>

Range(s) == { s[i] : i \in DOMAIN s }

-----------------------------------------------------------------------------
(* Calendar arithmetic of the JavaScript Date object (local time)          *)

SecondsPerDay == 24 * 60 * 60

IsLeap(y) == (y % 4 = 0 /\ y % 100 # 0) \/ y % 400 = 0

DaysInYear(y) == IF IsLeap(y) THEN 366 ELSE 365

\* m is a JavaScript month index, 0 = January .. 11 = December
DaysInMonth(y, m) ==
    IF m = 1 THEN (IF IsLeap(y) THEN 29 ELSE 28)
    ELSE IF m \in {3, 5, 8, 10} THEN 30 ELSE 31

\* Days from the epoch to January 1st of year y (negative before the epoch).
RECURSIVE DaysBeforeYear(_)
DaysBeforeYear(y) ==
    IF y = 2024 THEN 0
    ELSE IF y > 2024 THEN DaysBeforeYear(y - 1) + DaysInYear(y - 1)
    ELSE DaysBeforeYear(y + 1) - DaysInYear(y)

\* Days from January 1st of year y to the 1st of month m of that year.
RECURSIVE DaysBeforeMonth(_, _)
DaysBeforeMonth(y, m) ==
    IF m = 0 THEN 0 ELSE DaysBeforeMonth(y, m - 1) + DaysInMonth(y, m - 1)

\* new Date(y, m, d): the day number of a civil date.  The month may lie outside
\* 0..11 and the day outside the month: both carry over, as Date normalises them.
DayNumber(y, m, d) ==
    LET yy == y + ((m - (m % 12)) \div 12)
        mm == m % 12
    IN  DaysBeforeYear(yy) + DaysBeforeMonth(yy, mm) + (d - 1)

DayOf(t) == (t - (t % SecondsPerDay)) \div SecondsPerDay

RECURSIVE YearOfDay(_, _)
YearOfDay(dn, y) ==
    IF dn < DaysBeforeYear(y) THEN YearOfDay(dn, y - 1)
    ELSE IF dn >= DaysBeforeYear(y + 1) THEN YearOfDay(dn, y + 1)
    ELSE y

RECURSIVE MonthOfDay(_, _, _)
MonthOfDay(dn, y, m) ==
    IF dn >= DayNumber(y, m, 1) + DaysInMonth(y, m) THEN MonthOfDay(dn, y, m + 1) ELSE m

getFullYear(t) == YearOfDay(DayOf(t), 2024)
getMonth(t) == MonthOfDay(DayOf(t), getFullYear(t), 0)
getDate(t) == DayOf(t) - DayNumber(getFullYear(t), getMonth(t), 1) + 1
\* 0 = Sunday .. 6 = Saturday; day 0 of the epoch is a Monday
getDay(t) == (DayOf(t) + 1) % 7

-----------------------------------------------------------------------------
(* Optional properties of JavaScript objects                               *)
(*                                                                         *)
(* An object with optional properties is a function whose domain holds the *)
(* names of the properties that are present (not undefined).               *)

Has(obj, k) == k \in DOMAIN obj

\* obj with property k set to v
With(obj, k, v) == (k :> v) @@ obj

\* A value that may be null is a sequence: <<>> is null, <<v>> is v.
Null == <<>>
Some(v) == <<v>>

-----------------------------------------------------------------------------
(* Time Window Resolver                                                    *)

\* A resolver that goes forward to the next Monday on a Sunday.
getDateRangeStartSundayForward(dateRange, t) ==
    CASE dateRange = "THIS_WEEK" ->
            LET dayOfWeek == getDay(t)
                diff == IF dayOfWeek = 0 THEN 1 ELSE 1 - dayOfWeek
            IN  Some(DayNumber(getFullYear(t), getMonth(t), getDate(t) + diff)
                        * SecondsPerDay)
      [] dateRange = "THIS_MONTH" ->
            Some(DayNumber(getFullYear(t), getMonth(t), 1) * SecondsPerDay)
      [] dateRange = "LAST_3_MONTHS" ->
            Some(DayNumber(getFullYear(t), getMonth(t) - 3, getDate(t)) * SecondsPerDay)
      [] dateRange = "ALL_TIME" -> Null
      [] OTHER -> Null

\* paper.service.ts getDateRangeStart, evaluated at the instant t = new Date()
getDateRangeStart(dateRange, t) ==
    CASE dateRange = "THIS_WEEK" ->
            LET dayOfWeek == getDay(t)
                diff == IF dayOfWeek = 0 THEN -6 ELSE 1 - dayOfWeek
            IN  Some(DayNumber(getFullYear(t), getMonth(t), getDate(t) + diff)
                        * SecondsPerDay)
      [] dateRange = "THIS_MONTH" ->
            Some(DayNumber(getFullYear(t), getMonth(t), 1) * SecondsPerDay)
      [] dateRange = "LAST_3_MONTHS" ->
            Some(DayNumber(getFullYear(t), getMonth(t) - 3, getDate(t)) * SecondsPerDay)
      [] dateRange = "ALL_TIME" -> Null
      [] OTHER -> Null

\* A second copy that has drifted from the first: THIS_MONTH as the last 30 days.
getDateRangeStartLast30Days(dateRange, t) ==
    CASE dateRange = "THIS_WEEK" ->
            LET dayOfWeek == getDay(t)
                diff == IF dayOfWeek = 0 THEN -6 ELSE 1 - dayOfWeek
            IN  Some(DayNumber(getFullYear(t), getMonth(t), getDate(t) + diff)
                        * SecondsPerDay)
      [] dateRange = "THIS_MONTH" ->
            Some(DayNumber(getFullYear(t), getMonth(t), getDate(t) - 30) * SecondsPerDay)
      [] dateRange = "LAST_3_MONTHS" ->
            Some(DayNumber(getFullYear(t), getMonth(t) - 3, getDate(t)) * SecondsPerDay)
      [] dateRange = "ALL_TIME" -> Null
      [] OTHER -> Null

\* analytics.service.ts getDateRangeStart (a second copy of the function)
getDateRangeStartAnalytics(dateRange, t) ==
    CASE dateRange = "THIS_WEEK" ->
            LET dayOfWeek == getDay(t)
                diff == IF dayOfWeek = 0 THEN -6 ELSE 1 - dayOfWeek
            IN  Some(DayNumber(getFullYear(t), getMonth(t), getDate(t) + diff)
                        * SecondsPerDay)
      [] dateRange = "THIS_MONTH" ->
            Some(DayNumber(getFullYear(t), getMonth(t), 1) * SecondsPerDay)
      [] dateRange = "LAST_3_MONTHS" ->
            Some(DayNumber(getFullYear(t), getMonth(t) - 3, getDate(t)) * SecondsPerDay)
      [] dateRange = "ALL_TIME" -> Null
      [] OTHER -> Null

-----------------------------------------------------------------------------
(* Record Store Adapter: the Prisma client's queries on the Paper table    *)

\* Whether a row satisfies a Prisma where object: the conjunction of its keys.
Matches(where, row) ==
    \A k \in DOMAIN where :
        CASE k \in {"readingStage", "researchDomain", "impactScore"} ->
                \E i \in DOMAIN where[k].in : row[k] = where[k].in[i]
          [] k = "dateAdded" -> row.dateAdded >= where[k].gte
          [] OTHER -> row[k] = where[k]

\* The rows matching a where object, in table order.
Select(table, where) == SelectSeq(table, LAMBDA row : Matches(where, row))

\* prisma.paper.count({ where })
count(table, where) == Len(Select(table, where))

\* prisma.paper.findFirst({ where }): a matching row, or null
findFirst(table, where) ==
    LET rows == Select(table, where)
    IN  IF rows = <<>> THEN Null ELSE Some(rows[1])

\* prisma.paper.findUnique({ where: { id }, select: { userKeyId: true } })
findUnique(table, id) ==
    LET rows == Select(table, [id |-> id])
    IN  IF rows = <<>> THEN Null ELSE Some([userKeyId |-> rows[1].userKeyId])

\* prisma.paper.update({ where: { id }, data }): the properties of data that are
\* present are written, the others are left as they are.
update(table, id, data) ==
    [ i \in DOMAIN table |->
        IF table[i].id = id
        THEN [ k \in DOMAIN table[i] |-> IF Has(data, k) THEN data[k] ELSE table[i][k] ]
        ELSE table[i] ]

-----------------------------------------------------------------------------
(* Query Engine: the scoped predicate                                      *)

\* A where object that does not ask for isArchived: false.
PapersWhereWithArchived(userKeyId, filters, t) ==
    LET w0 == [userKeyId |-> userKeyId]
        w1 == IF Has(filters, "readingStages") /\ Len(filters.readingStages) > 0
              THEN With(w0, "readingStage", [in |-> filters.readingStages]) ELSE w0
        w2 == IF Has(filters, "researchDomains") /\ Len(filters.researchDomains) > 0
              THEN With(w1, "researchDomain", [in |-> filters.researchDomains]) ELSE w1
        w3 == IF Has(filters, "impactScores") /\ Len(filters.impactScores) > 0
              THEN With(w2, "impactScore", [in |-> filters.impactScores]) ELSE w2
        startDate == IF Has(filters, "dateRange") /\ filters.dateRange # ""
                     THEN getDateRangeStart(filters.dateRange, t) ELSE Null
    IN  IF startDate # Null THEN With(w3, "dateAdded", [gte |-> startDate[1]]) ELSE w3

\* paper.service.ts getPapers: the where object it builds at the instant t
PapersWhere(userKeyId, filters, t) ==
    LET w0 == [userKeyId |-> userKeyId, isArchived |-> FALSE]
        w1 == IF Has(filters, "readingStages") /\ Len(filters.readingStages) > 0
              THEN With(w0, "readingStage", [in |-> filters.readingStages]) ELSE w0
        w2 == IF Has(filters, "researchDomains") /\ Len(filters.researchDomains) > 0
              THEN With(w1, "researchDomain", [in |-> filters.researchDomains]) ELSE w1
        w3 == IF Has(filters, "impactScores") /\ Len(filters.impactScores) > 0
              THEN With(w2, "impactScore", [in |-> filters.impactScores]) ELSE w2
        startDate == IF Has(filters, "dateRange") /\ filters.dateRange # ""
                     THEN getDateRangeStart(filters.dateRange, t) ELSE Null
    IN  IF startDate # Null THEN With(w3, "dateAdded", [gte |-> startDate[1]]) ELSE w3

\* A where object in which a list that is given but empty is a constraint too.
buildWhereClauseEmptyListsKept(userKeyId, filters, t) ==
    LET w0 == [userKeyId |-> userKeyId, isArchived |-> FALSE]
        w1 == IF Has(filters, "readingStages")
              THEN With(w0, "readingStage", [in |-> filters.readingStages]) ELSE w0
        w2 == IF Has(filters, "researchDomains")
              THEN With(w1, "researchDomain", [in |-> filters.researchDomains]) ELSE w1
        w3 == IF Has(filters, "impactScores")
              THEN With(w2, "impactScore", [in |-> filters.impactScores]) ELSE w2
        startDate == IF Has(filters, "dateRange") /\ filters.dateRange # ""
                     THEN getDateRangeStartAnalytics(filters.dateRange, t) ELSE Null
    IN  IF startDate # Null THEN With(w3, "dateAdded", [gte |-> startDate[1]]) ELSE w3

\* analytics.service.ts buildWhereClause, at the instant t
buildWhereClause(userKeyId, filters, t) ==
    LET w0 == [userKeyId |-> userKeyId, isArchived |-> FALSE]
        w1 == IF Has(filters, "readingStages") /\ Len(filters.readingStages) > 0
              THEN With(w0, "readingStage", [in |-> filters.readingStages]) ELSE w0
        w2 == IF Has(filters, "researchDomains") /\ Len(filters.researchDomains) > 0
              THEN With(w1, "researchDomain", [in |-> filters.researchDomains]) ELSE w1
        w3 == IF Has(filters, "impactScores") /\ Len(filters.impactScores) > 0
              THEN With(w2, "impactScore", [in |-> filters.impactScores]) ELSE w2
        startDate == IF Has(filters, "dateRange") /\ filters.dateRange # ""
                     THEN getDateRangeStartAnalytics(filters.dateRange, t) ELSE Null
    IN  IF startDate # Null THEN With(w3, "dateAdded", [gte |-> startDate[1]]) ELSE w3

-----------------------------------------------------------------------------
(* Orders in which a query may return its rows                             *)

\* The arrangements of the elements of a sequence.
RECURSIVE Arrangements(_)
Arrangements(rows) ==
    IF rows = <<>> THEN { <<>> }
    ELSE UNION { { <<rows[i]>> \o rest :
                    rest \in Arrangements(
                        [ j \in 1..(Len(rows) - 1) |-> IF j < i THEN rows[j] ELSE rows[j + 1] ]) } :
                 i \in DOMAIN rows }

\* orderBy: { dateAdded: "asc" }
OrderedByDateAddedAsc(rows) ==
    \A i \in 1..(Len(rows) - 1) : rows[i].dateAdded <= rows[i + 1].dateAdded

\* orderBy: { dateAdded: "desc" }: rows of equal dateAdded come in an order the
\* database chooses.
OrderedByDateAddedDesc(rows) ==
    \A i \in 1..(Len(rows) - 1) : rows[i].dateAdded >= rows[i + 1].dateAdded

\* The arrangements of the rows that the orderBy allows: first a row that may
\* stand before every other, then the others in such an arrangement.
RECURSIVE ArrangementsByDateAddedDesc(_)
ArrangementsByDateAddedDesc(rows) ==
    IF rows = <<>> THEN { <<>> }
    ELSE UNION { { <<rows[i]>> \o rest :
                    rest \in ArrangementsByDateAddedDesc(
                        [ j \in 1..(Len(rows) - 1) |-> IF j < i THEN rows[j] ELSE rows[j + 1] ]) } :
                 i \in { k \in DOMAIN rows :
                           \A j \in DOMAIN rows : OrderedByDateAddedDesc(<<rows[k], rows[j]>>) } }

\* skip / take of a findMany
Slice(rows, skip, take) ==
    [ i \in 1..(IF Len(rows) - skip < 0 THEN 0
                ELSE IF Len(rows) - skip < take THEN Len(rows) - skip ELSE take)
        |-> rows[skip + i] ]

\* The select of getPapers' findMany: isArchived and userKeyId are not returned.
PaperItem(row) ==
    [ id |-> row.id, title |-> row.title, firstAuthor |-> row.firstAuthor,
      researchDomain |-> row.researchDomain, readingStage |-> row.readingStage,
      citationCount |-> row.citationCount, impactScore |-> row.impactScore,
      dateAdded |-> row.dateAdded ]

\* prisma.paper.findMany({ where, skip, take, orderBy: { dateAdded: "desc" }, select }):
\* the results the database may return.
findManyPage(table, where, skip, take) ==
    { [ i \in DOMAIN Slice(rows, skip, take) |-> PaperItem(Slice(rows, skip, take)[i]) ] :
        rows \in ArrangementsByDateAddedDesc(Select(table, where)) }

\* prisma.paper.findMany({ where, select }) of getAnalytics: no order is asked for,
\* the database returns the matching rows in an order of its choice.
findManyAll(table, where) == Arrangements(Select(table, where))

-----------------------------------------------------------------------------
(* Analytics Aggregator                                                    *)

\* A JavaScript Map (and the string keys of an object) keeps its keys in insertion
\* order: a sequence of entries [key, value].
MapHas(map, k) == \E i \in DOMAIN map : map[i].key = k

MapGet(map, k) == map[CHOOSE i \in DOMAIN map : map[i].key = k].value

\* map.get(k) || 0
MapGetOr0(map, k) == IF MapHas(map, k) THEN MapGet(map, k) ELSE 0

\* map.set(k, v)
MapSet(map, k, v) ==
    IF MapHas(map, k)
    THEN [ i \in DOMAIN map |-> IF map[i].key = k THEN [key |-> k, value |-> v] ELSE map[i] ]
    ELSE Append(map, [key |-> k, value |-> v])

\* The quotient a / b of two JavaScript numbers holding integers, b > 0, as the
\* fraction in lowest terms.
RECURSIVE Gcd(_, _)
Gcd(a, b) == IF b = 0 THEN a ELSE Gcd(b, a % b)

\* A quotient rounded to four decimals.
QuotientRounded(a, b) ==
    LET tenThousandths == (a * 10000 + (b \div 2)) \div b
    IN  [num |-> tenThousandths \div Gcd(tenThousandths, 10000),
         den |-> 10000 \div Gcd(tenThousandths, 10000)]

Quotient(a, b) == [num |-> a \div Gcd(a, b), den |-> b \div Gcd(a, b)]

\* The JavaScript number 0.
Zero == [num |-> 0, den |-> 1]

\* computeFunnelData: the loop that counts the papers of each stage
RECURSIVE funnelCount(_, _, _)
funnelCount(stageCounts, rows, i) ==
    IF i > Len(rows) THEN stageCounts
    ELSE funnelCount(
            MapSet(stageCounts, rows[i].readingStage,
                   MapGetOr0(stageCounts, rows[i].readingStage) + 1),
            rows, i + 1)

\* A funnel that leaves out the stages without papers.
computeFunnelDataSparse(rows) ==
    LET stageCounts == funnelCount(<<>>, rows, 1)
        present == SelectSeq(allStages, LAMBDA stage : MapHas(stageCounts, stage))
    IN  [ i \in DOMAIN present |->
            [stage |-> present[i], count |-> MapGet(stageCounts, present[i])] ]

computeFunnelData(rows) ==
    LET init == [ i \in DOMAIN allStages |-> [key |-> allStages[i], value |-> 0] ]
        stageCounts == funnelCount(init, rows, 1)
    IN  [ i \in DOMAIN allStages |->
            [stage |-> allStages[i], count |-> MapGetOr0(stageCounts, allStages[i])] ]

computeScatterData(rows) ==
    [ i \in DOMAIN rows |->
        [citationCount |-> rows[i].citationCount, impactScore |-> rows[i].impactScore] ]

\* computeStackedBarData: the loop that counts the papers of each (domain, stage);
\* a paper whose domain has no entry is skipped
RECURSIVE stackedCount(_, _, _)
stackedCount(domainStages, rows, i) ==
    IF i > Len(rows) THEN domainStages
    ELSE IF MapHas(domainStages, rows[i].researchDomain)
    THEN LET domainMap == MapGet(domainStages, rows[i].researchDomain)
             currentCount == MapGetOr0(domainMap, rows[i].readingStage)
         IN  stackedCount(
                MapSet(domainStages, rows[i].researchDomain,
                       MapSet(domainMap, rows[i].readingStage, currentCount + 1)),
                rows, i + 1)
    ELSE stackedCount(domainStages, rows, i + 1)

\* A stackedBar whose domains start with every stage at 0.
computeStackedBarDataDense(rows) ==
    LET zeros == [ j \in DOMAIN allStages |-> [key |-> allStages[j], value |-> 0] ]
        init == [ i \in DOMAIN allDomains |-> [key |-> allDomains[i], value |-> zeros] ]
        domainStages == stackedCount(init, rows, 1)
    IN  [ i \in DOMAIN allDomains |->
            [domain |-> allDomains[i], stages |-> MapGet(domainStages, allDomains[i])] ]

computeStackedBarData(rows) ==
    LET init == [ i \in DOMAIN allDomains |-> [key |-> allDomains[i], value |-> <<>>] ]
        domainStages == stackedCount(init, rows, 1)
    IN  [ i \in DOMAIN allDomains |->
            [domain |-> allDomains[i],
             stages |-> IF MapHas(domainStages, allDomains[i])
                        THEN MapGet(domainStages, allDomains[i]) ELSE <<>>] ]

RECURSIVE sumCitations(_, _)
sumCitations(rows, i) ==
    IF i > Len(rows) THEN 0 ELSE rows[i].citationCount + sumCitations(rows, i + 1)

\* A summary whose means leave out the papers without citations.
computeSummaryMetricsCitedOnly(rows) ==
    LET totalPapers == Len(rows)
        fullyRead == Len(SelectSeq(rows, LAMBDA paper : paper.readingStage = FULLY_READ))
        domainPapers(domain) ==
            SelectSeq(rows, LAMBDA paper :
                        paper.researchDomain = domain /\ paper.citationCount > 0)
    IN  [ totalPapers |-> totalPapers,
          fullyRead |-> fullyRead,
          completionRate |-> IF totalPapers > 0 THEN Quotient(fullyRead, totalPapers) ELSE Zero,
          avgCitationsByDomain |->
            [ i \in DOMAIN allDomains |->
                [key |-> allDomains[i],
                 value |-> IF Len(domainPapers(allDomains[i])) > 0
                           THEN Quotient(sumCitations(domainPapers(allDomains[i]), 1),
                                         Len(domainPapers(allDomains[i])))
                           ELSE Zero] ] ]

computeSummaryMetrics(rows) ==
    LET totalPapers == Len(rows)
        fullyRead == Len(SelectSeq(rows, LAMBDA paper : paper.readingStage = FULLY_READ))
        domainPapers(domain) == SelectSeq(rows, LAMBDA paper : paper.researchDomain = domain)
    IN  [ totalPapers |-> totalPapers,
          fullyRead |-> fullyRead,
          completionRate |-> IF totalPapers > 0 THEN Quotient(fullyRead, totalPapers) ELSE Zero,
          avgCitationsByDomain |->
            [ i \in DOMAIN allDomains |->
                [key |-> allDomains[i],
                 value |-> IF Len(domainPapers(allDomains[i])) > 0
                           THEN Quotient(sumCitations(domainPapers(allDomains[i]), 1),
                                         Len(domainPapers(allDomains[i])))
                           ELSE Zero] ] ]

\* The select of getAnalytics' findMany
AnalyticsRow(row) ==
    [ readingStage |-> row.readingStage, researchDomain |-> row.researchDomain,
      citationCount |-> row.citationCount, impactScore |-> row.impactScore ]

\* analytics.service.ts getAnalytics at the instant t: the responses it may give,
\* one for each order in which the database may return the rows
getAnalytics(table, userKeyId, filters, t) ==
    { LET rows == [ i \in DOMAIN fetched |-> AnalyticsRow(fetched[i]) ]
      IN  [ funnel |-> computeFunnelData(rows),
            scatter |-> computeScatterData(rows),
            stackedBar |-> computeStackedBarData(rows),
            summary |-> computeSummaryMetrics(rows) ] :
        fetched \in findManyAll(table, buildWhereClause(userKeyId, filters, t)) }

\* paper.service.ts getPapers at the instant t, on a table that does not change
\* between its two queries: the responses it may give
getPapers(table, userKeyId, filters, pagination, t) ==
    LET page == IF Has(pagination, "page") THEN pagination.page ELSE 1
        pageSize == IF Has(pagination, "pageSize") THEN pagination.pageSize ELSE 10
        skip == (page - 1) * pageSize
        where == PapersWhere(userKeyId, filters, t)
        total == count(table, where)
    IN  { [ items |-> items,
            pagination |-> [page |-> page, pageSize |-> pageSize, total |-> total] ] :
            items \in findManyPage(table, where, skip, pageSize) }

-----------------------------------------------------------------------------
(* Paper Lifecycle Manager                                                 *)

\* A Paper table without a unique constraint.
NoUniqueConstraint(table, row) == FALSE

\* The Paper table's unique constraint on (title, first_author, user_key_id):
\* whether inserting row would break it.
UniqueConstraintViolated(table, row) ==
    \E i \in DOMAIN table :
        /\ table[i].title = row.title
        /\ table[i].firstAuthor = row.firstAuthor
        /\ table[i].userKeyId = row.userKeyId

\* A findFirst that looks for the title and first author among the papers of
\* every owner.
createPaperFindAnyOwner(table, userKeyId, data) ==
    findFirst(table, [title |-> data.title, firstAuthor |-> data.firstAuthor])

\* createPaper: the findFirst that looks for a duplicate
createPaperFind(table, userKeyId, data) ==
    findFirst(table, [title |-> data.title, firstAuthor |-> data.firstAuthor,
                      userKeyId |-> userKeyId])

\* The id the database generates for a new row: one that no row has.
generatedId(table) == Len(table) + 1

\* createPaper: the row prisma.paper.create inserts at the instant t, id being
\* the id the database generates
createPaperRow(id, userKeyId, data, t) ==
    [ id |-> id,
      title |-> data.title,
      firstAuthor |-> data.firstAuthor,
      researchDomain |-> data.researchDomain,
      readingStage |-> data.readingStage,
      citationCount |-> data.citationCount,
      impactScore |-> data.impactScore,
      dateAdded |-> t,
      isArchived |-> FALSE,
      userKeyId |-> userKeyId ]

\* createPaper after its findFirst returned existingPaper: what it throws ("" when
\* it returns) and the table it leaves
createPaperInsert(table, id, existingPaper, userKeyId, data, t) ==
    IF existingPaper # Null
    THEN [throws |-> "DUPLICATE_PAPER", table |-> table]
    ELSE IF UniqueConstraintViolated(table, createPaperRow(id, userKeyId, data, t))
    THEN [throws |-> "PrismaClientKnownRequestError", table |-> table]
    ELSE [throws |-> "", table |-> Append(table, createPaperRow(id, userKeyId, data, t))]

\* A check that only asks for the paper to exist.
notFoundOwnerUnchecked(paper, userKeyId) ==
    IF paper = Null THEN "no paper" ELSE ""

\* updatePaper / archivePaper: the check of the row findUnique returned: which of
\* the two throw statements is reached, "" when none is
notFound(paper, userKeyId) ==
    IF paper = Null THEN "no paper"
    ELSE IF paper[1].userKeyId # userKeyId THEN "other owner"
    ELSE ""

\* A data object that is the request body as it came.
updatePaperDataWhole(data) == data

\* updatePaper: the data object handed to prisma.paper.update
updatePaperData(data) ==
    [ k \in DOMAIN data \cap {"researchDomain", "readingStage", "citationCount"} |-> data[k] ]

\* updatePaper after its findUnique returned paper: what it throws ("" when it
\* returns), at which of its throw statements, and the table it leaves
updatePaperWrite(table, paper, paperId, userKeyId, data) ==
    IF notFound(paper, userKeyId) # ""
    THEN [throws |-> "NOT_FOUND", at |-> notFound(paper, userKeyId), table |-> table]
    ELSE [throws |-> "", at |-> "",
          table |-> update(table, paperId, updatePaperData(data))]

\* An archive that is guarded against archiving again.
archivePaperOnce(table, paper, paperId, userKeyId) ==
    IF notFound(paper, userKeyId) # ""
    THEN [throws |-> "NOT_FOUND", at |-> notFound(paper, userKeyId), table |-> table]
    ELSE IF Select(table, [id |-> paperId])[1].isArchived
    THEN [throws |-> "NOT_FOUND", at |-> "archived", table |-> table]
    ELSE [throws |-> "", at |-> "",
          table |-> update(table, paperId, [isArchived |-> TRUE])]

\* An archive that flips the flag.
archivePaperToggle(table, paper, paperId, userKeyId) ==
    IF notFound(paper, userKeyId) # ""
    THEN [throws |-> "NOT_FOUND", at |-> notFound(paper, userKeyId), table |-> table]
    ELSE [throws |-> "", at |-> "",
          table |-> update(table, paperId,
                           [isArchived |-> ~Select(table, [id |-> paperId])[1].isArchived])]

\* archivePaper after its findUnique returned paper
archivePaperWrite(table, paper, paperId, userKeyId) ==
    IF notFound(paper, userKeyId) # ""
    THEN [throws |-> "NOT_FOUND", at |-> notFound(paper, userKeyId), table |-> table]
    ELSE [throws |-> "", at |-> "",
          table |-> update(table, paperId, [isArchived |-> TRUE])]

-----------------------------------------------------------------------------
(* Inputs                                                                  *)

Owners == {"u1", "u2"}

\* Two papers of the same title by different first authors, and a third paper by
\* the first author of the first.
CreateInputs ==
    { [title |-> "T1", firstAuthor |-> "A1", researchDomain |-> PHYSICS,
       readingStage |-> FULLY_READ, citationCount |-> 10, impactScore |-> HIGH_IMPACT],
      [title |-> "T1", firstAuthor |-> "A2", researchDomain |-> PHYSICS,
       readingStage |-> ABSTRACT_READ, citationCount |-> 0, impactScore |-> UNKNOWN],
      [title |-> "T2", firstAuthor |-> "A1", researchDomain |-> BIOLOGY,
       readingStage |-> FULLY_READ, citationCount |-> 5, impactScore |-> LOW_IMPACT] }

T1A1 == CHOOSE d \in CreateInputs : d.title = "T1" /\ d.firstAuthor = "A1"

\* The create requests: u1 creates any of the papers, u2 the first one.
CreateRequests ==
    { [userKeyId |-> "u1", data |-> d] : d \in CreateInputs }
        \cup { [userKeyId |-> "u2", data |-> T1A1] }

\* Request bodies of an update: one updatable field with the fields that are
\* not updatable, and none.
UpdateInputs ==
    { [readingStage |-> NOTES_COMPLETED, title |-> "T9", firstAuthor |-> "A9",
       impactScore |-> UNKNOWN, dateAdded |-> 0, isArchived |-> FALSE,
       userKeyId |-> "u2", id |-> 9],
      <<>> }

\* The most rows the table holds in the lifecycle specifications.
MaxPapers == 2

PaperIds == 1..(MaxPapers + 1)

\* Wednesday 2024-05-29, 10:00
StartInstant == DayNumber(2024, 4, 29) * SecondsPerDay + 10 * 60 * 60

\* How many days the clock of the lifecycle specifications runs.
MaxDays == 1

NoResp == [op |-> "none"]

-----------------------------------------------------------------------------
(* Sequential specification: every service call runs to its end, and its   *)
(* outcome is handed to the caller, before the next one starts.            *)

SeqInit ==
    /\ papers = <<>>
    /\ now = StartInstant
    /\ resp = NoResp
    /\ calls = EmptyBag
    /\ rateLimitStore = <<>>

\* The outcome of the last call is handed to its caller.
Deliver ==
    /\ resp # NoResp
    /\ resp' = NoResp
    /\ UNCHANGED <<papers, now, calls, rateLimitStore>>

\* A day passes.
Tick ==
    /\ resp = NoResp
    /\ now + SecondsPerDay <= StartInstant + MaxDays * SecondsPerDay
    /\ now' = now + SecondsPerDay
    /\ UNCHANGED <<papers, resp, calls, rateLimitStore>>

CreatePaper(userKeyId, data) ==
    LET existingPaper == createPaperFind(papers, userKeyId, data)
        done == createPaperInsert(papers, generatedId(papers), existingPaper,
                                  userKeyId, data, now)
    IN  /\ resp = NoResp
        /\ Len(papers) < MaxPapers \/ done.throws # ""
        /\ papers' = done.table
        /\ resp' = [op |-> "createPaper", throws |-> done.throws, at |-> ""]
        /\ UNCHANGED <<now, calls, rateLimitStore>>

UpdatePaper(paperId, userKeyId, data) ==
    LET paper == findUnique(papers, paperId)
        done == updatePaperWrite(papers, paper, paperId, userKeyId, data)
    IN  /\ resp = NoResp
        /\ papers' = done.table
        /\ resp' = [op |-> "updatePaper", throws |-> done.throws, at |-> done.at]
        /\ UNCHANGED <<now, calls, rateLimitStore>>

ArchivePaper(paperId, userKeyId) ==
    LET paper == findUnique(papers, paperId)
        done == archivePaperWrite(papers, paper, paperId, userKeyId)
    IN  /\ resp = NoResp
        /\ papers' = done.table
        /\ resp' = [op |-> "archivePaper", throws |-> done.throws, at |-> done.at]
        /\ UNCHANGED <<now, calls, rateLimitStore>>

SeqNext ==
    \/ Deliver
    \/ Tick
    \/ \E r \in CreateRequests : CreatePaper(r.userKeyId, r.data)
    \/ \E id \in PaperIds, u \in Owners, d \in UpdateInputs : UpdatePaper(id, u, d)
    \/ \E id \in PaperIds, u \in Owners : ArchivePaper(id, u)

SeqSpec == SeqInit /\ [][SeqNext]_vars

-----------------------------------------------------------------------------
(* Properties of the sequential specification                              *)

SameKey(row, userKeyId, data) ==
    /\ row.title = data.title
    /\ row.firstAuthor = data.firstAuthor
    /\ row.userKeyId = userKeyId

\* C2: in a sequential run, createPaper throws DUPLICATE_PAPER and adds no row if
\* and only if the owner already has a paper, archived or not, of the same title
\* and first author; otherwise it returns and adds the row, also when another
\* owner has a paper of that title and first author.
C2_DuplicateIffOwnerHasKey ==
    [][ \A r \in CreateRequests :
          CreatePaper(r.userKeyId, r.data) =>
            LET dup == \E i \in DOMAIN papers : SameKey(papers[i], r.userKeyId, r.data)
            IN  /\ (resp'.throws = "DUPLICATE_PAPER") <=> dup
                /\ dup => papers' = papers
                /\ ~dup => /\ resp'.throws = ""
                           /\ Len(papers') = Len(papers) + 1
                           /\ SubSeq(papers', 1, Len(papers)) = papers
                           /\ SameKey(papers'[Len(papers')], r.userKeyId, r.data) ]_vars

\* A create was rejected as a duplicate while the two owners hold a paper of the
\* same title and first author each, one of them archived.
C2_Witness ==
    /\ resp.op = "createPaper" /\ resp.throws = "DUPLICATE_PAPER"
    /\ Len(papers) = 2
    /\ papers[1].title = papers[2].title
    /\ papers[1].firstAuthor = papers[2].firstAuthor
    /\ papers[1].userKeyId # papers[2].userKeyId
    /\ papers[1].isArchived

\* C4: updatePaper and archivePaper on an id whose paper belongs to another owner
\* throw NOT_FOUND, as they do on an id that no paper has, and leave the table as
\* it is.
C4_ForeignIdNotFound ==
    [][ \A id \in PaperIds, u \in Owners :
          LET foreign == \E i \in DOMAIN papers :
                            papers[i].id = id /\ papers[i].userKeyId # u
              absent == \A i \in DOMAIN papers : papers[i].id # id
          IN  (foreign \/ absent) =>
                /\ \A d \in UpdateInputs :
                      UpdatePaper(id, u, d) =>
                        resp'.throws = "NOT_FOUND" /\ papers' = papers
                /\ ArchivePaper(id, u) =>
                        resp'.throws = "NOT_FOUND" /\ papers' = papers ]_vars

\* An update or an archive was refused because the paper belongs to another owner.
C4_Witness ==
    /\ resp.op \in {"updatePaper", "archivePaper"}
    /\ resp.throws = "NOT_FOUND"
    /\ resp.at = "other owner"

\* C13: an updatePaper that succeeds writes researchDomain, readingStage and
\* citationCount of the paper with the id, each only when the data supplies it,
\* and leaves every other field of that paper and every other paper as they
\* are, whatever else the data carries.
C13_UpdateFrame ==
    [][ \A id \in PaperIds, u \in Owners, d \in UpdateInputs :
          (UpdatePaper(id, u, d) /\ resp'.throws = "") =>
              /\ DOMAIN papers' = DOMAIN papers
              /\ \A i \in DOMAIN papers :
                    IF papers[i].id = id
                    THEN \A k \in DOMAIN papers[i] :
                            papers'[i][k] =
                                IF k \in {"researchDomain", "readingStage", "citationCount"}
                                      /\ k \in DOMAIN d
                                THEN d[k] ELSE papers[i][k]
                    ELSE papers'[i] = papers[i] ]_vars

\* An archived paper was updated with a body that carries title, isArchived and
\* the other fields: it has the new readingStage and is still archived, under
\* its title, beside another paper.
C13_Witness ==
    /\ resp.op = "updatePaper"
    /\ resp.throws = ""
    /\ Len(papers) = 2
    /\ \E i \in DOMAIN papers :
          /\ papers[i].readingStage = "Notes Completed"
          /\ papers[i].isArchived
          /\ papers[i].title = "T1"
          /\ papers[i].userKeyId = "u1"
          /\ papers[i].researchDomain = "Physics"

-----------------------------------------------------------------------------
(* Interleaved specification: calls of createPaper and archivePaper run    *)
(* concurrently; each await of a query is a step of its own.               *)

\* The calls that may be in flight at the same time.
MaxCalls == 2

\* The create requests of the interleaved specification: the two owners create
\* the same paper.
ConcurrentCreateRequests == { r \in CreateRequests : r.data = T1A1 }

Init ==
    /\ papers = <<>>
    /\ now = StartInstant
    /\ resp = NoResp
    /\ calls = EmptyBag
    /\ rateLimitStore = <<>>

\* A call enters / leaves the bag of the calls in flight.
Begun(call) == calls (+) SetToBag({call})
Ended(call) == calls (-) SetToBag({call})

\* The creates in flight that have not reached their insert.
CreatesInFlight ==
    BagCardinality([ c \in { x \in BagToSet(calls) : x.pc = "createPaper" } |-> calls[c] ])

\* createPaper up to the end of its findFirst
CreateBegin(userKeyId, data) ==
    /\ BagCardinality(calls) < MaxCalls
    /\ Len(papers) + CreatesInFlight < MaxPapers
    /\ calls' = Begun([pc |-> "createPaper", userKeyId |-> userKeyId, data |-> data,
                       existingPaper |-> createPaperFind(papers, userKeyId, data)])
    /\ UNCHANGED <<papers, now, resp, rateLimitStore>>

\* createPaper from the check of existingPaper to its end
CreateEnd(call) ==
    /\ call.pc = "createPaper"
    /\ LET done == createPaperInsert(papers, generatedId(papers), call.existingPaper,
                                     call.userKeyId, call.data, now)
       IN  /\ papers' = done.table
           /\ resp' = [op |-> "createPaper", throws |-> done.throws, at |-> ""]
    /\ calls' = Ended(call)
    /\ UNCHANGED <<now, rateLimitStore>>

\* archivePaper up to the end of its findUnique
ArchiveBegin(paperId, userKeyId) ==
    /\ BagCardinality(calls) < MaxCalls
    /\ calls' = Begun([pc |-> "archivePaper", paperId |-> paperId, userKeyId |-> userKeyId,
                       paper |-> findUnique(papers, paperId)])
    /\ UNCHANGED <<papers, now, resp, rateLimitStore>>

\* archivePaper from the check of paper to its end
ArchiveEnd(call) ==
    /\ call.pc = "archivePaper"
    /\ LET done == archivePaperWrite(papers, call.paper, call.paperId, call.userKeyId)
       IN  /\ papers' = done.table
           /\ resp' = [op |-> "archivePaper", throws |-> done.throws, at |-> done.at]
    /\ calls' = Ended(call)
    /\ UNCHANGED <<now, rateLimitStore>>

Next ==
    \/ \E r \in ConcurrentCreateRequests : CreateBegin(r.userKeyId, r.data)
    \/ \E call \in BagToSet(calls) : CreateEnd(call)
    \/ \E id \in 1..(Len(papers) + 1), u \in Owners : ArchiveBegin(id, u)
    \/ \E call \in BagToSet(calls) : ArchiveEnd(call)

Spec == Init /\ [][Next]_vars

-----------------------------------------------------------------------------
(* Query specification: the server starts on a table that earlier runs     *)
(* left in the database; papers are listed, aggregated and archived, one   *)
(* call at a time.                                                         *)

\* Instants of 2024 (month as on the calendar, 1 = January)
At(month, day, h, m, sec) ==
    DayNumber(2024, month - 1, day) * SecondsPerDay + h * 60 * 60 + m * 60 + sec

\* The papers the earlier runs may have created, in the order of their creation.
\* As seen on Wednesday May 29: the first lies on the lower bound of
\* LAST_3_MONTHS, the second a second before the Monday of THIS_WEEK, the third
\* on that Monday's midnight; the last three were created in the same second,
\* one of them by the other owner.
Catalogue ==
    << [title |-> "T0", firstAuthor |-> "A1", researchDomain |-> MATHEMATICS,
        readingStage |-> INTRODUCTION_DONE, citationCount |-> 2,
        impactScore |-> MEDIUM_IMPACT, dateAdded |-> At(2, 29, 0, 0, 0), userKeyId |-> "u1"],
       [title |-> "T3", firstAuthor |-> "A1", researchDomain |-> BIOLOGY,
        readingStage |-> ABSTRACT_READ, citationCount |-> 0,
        impactScore |-> HIGH_IMPACT, dateAdded |-> At(5, 26, 23, 59, 59), userKeyId |-> "u1"],
       [title |-> "T1", firstAuthor |-> "A2", researchDomain |-> PHYSICS,
        readingStage |-> ABSTRACT_READ, citationCount |-> 0,
        impactScore |-> UNKNOWN, dateAdded |-> At(5, 27, 0, 0, 0), userKeyId |-> "u1"],
       [title |-> "T1", firstAuthor |-> "A1", researchDomain |-> PHYSICS,
        readingStage |-> FULLY_READ, citationCount |-> 10,
        impactScore |-> HIGH_IMPACT, dateAdded |-> At(5, 29, 9, 0, 0), userKeyId |-> "u1"],
       [title |-> "T2", firstAuthor |-> "A1", researchDomain |-> BIOLOGY,
        readingStage |-> FULLY_READ, citationCount |-> 5,
        impactScore |-> LOW_IMPACT, dateAdded |-> At(5, 29, 9, 0, 0), userKeyId |-> "u1"],
       [title |-> "T1", firstAuthor |-> "A1", researchDomain |-> PHYSICS,
        readingStage |-> FULLY_READ, citationCount |-> 10,
        impactScore |-> HIGH_IMPACT, dateAdded |-> At(5, 29, 9, 0, 0), userKeyId |-> "u2"] >>

\* The most rows of a table of the query specification.
MaxRows == 3

\* The strictly increasing sequences of at most n indices of the catalogue.
Picks(n) ==
    { p \in UNION { [1..k -> DOMAIN Catalogue] : k \in 0..n } :
        \A j \in 1..(Len(p) - 1) : p[j] < p[j + 1] }

\* The table that holds the picked papers, none archived, with the ids the
\* database gave them.
TableOf(pick) ==
    [ i \in DOMAIN pick |->
        [ id |-> i,
          title |-> Catalogue[pick[i]].title,
          firstAuthor |-> Catalogue[pick[i]].firstAuthor,
          researchDomain |-> Catalogue[pick[i]].researchDomain,
          readingStage |-> Catalogue[pick[i]].readingStage,
          citationCount |-> Catalogue[pick[i]].citationCount,
          impactScore |-> Catalogue[pick[i]].impactScore,
          dateAdded |-> Catalogue[pick[i]].dateAdded,
          isArchived |-> FALSE,
          userKeyId |-> Catalogue[pick[i]].userKeyId ] ]

\* Wednesday May 29 and Sunday June 2, 10:00
QueryInstants == { At(5, 29, 10, 0, 0), At(6, 2, 10, 0, 0) }

\* Filters: every combination of a one-element list or none in the three list
\* dimensions; lists that are empty, hold several values or match nothing; every
\* date range, one that is not recognised and the empty string, alone and with a
\* list.
FilterInputs ==
    { f \in UNION { [D -> { <<FULLY_READ>>, <<PHYSICS>>, <<HIGH_IMPACT>> }] :
                    D \in SUBSET {"readingStages", "researchDomains", "impactScores"} } :
        /\ Has(f, "readingStages") => f.readingStages = <<FULLY_READ>>
        /\ Has(f, "researchDomains") => f.researchDomains = <<PHYSICS>>
        /\ Has(f, "impactScores") => f.impactScores = <<HIGH_IMPACT>> }
    \cup
    { [readingStages |-> <<>>],
      [readingStages |-> <<ABSTRACT_READ, FULLY_READ>>],
      [researchDomains |-> <<>>, impactScores |-> <<>>],
      [researchDomains |-> <<BIOLOGY, PHYSICS>>, impactScores |-> <<LOW_IMPACT, UNKNOWN>>],
      [readingStages |-> <<NOTES_COMPLETED>>] }
    \cup
    { [dateRange |-> d] :
        d \in {"THIS_WEEK", "THIS_MONTH", "LAST_3_MONTHS", "ALL_TIME", "YESTERDAY", ""} }
    \cup
    { [dateRange |-> d, readingStages |-> <<FULLY_READ>>] :
        d \in {"THIS_WEEK", "THIS_MONTH", "LAST_3_MONTHS", "ALL_TIME", "YESTERDAY", ""} }

\* The largest page asked for.
MaxPage == 2

\* The listings asked for: every filter without pagination (the defaults
\* apply), and pages of one and of two papers with three of the filters.
ListRequests ==
    LET PaginationInputs ==
            { <<>> } \cup { [page |-> p, pageSize |-> s] : p \in 1..MaxPage, s \in {1, 2} }
        PagedFilters == { <<>>, [readingStages |-> <<FULLY_READ>>], [dateRange |-> "THIS_WEEK"] }
    IN  { r \in [userKeyId : Owners, filters : FilterInputs, pagination : PaginationInputs] :
            r.pagination = <<>> \/ r.filters \in PagedFilters }

AnalyticsRequests == { [userKeyId |-> u, filters |-> f] : u \in Owners, f \in FilterInputs }

QueryInit ==
    /\ papers \in { TableOf(p) : p \in Picks(MaxRows) }
    /\ now \in QueryInstants
    /\ resp = NoResp
    /\ calls = EmptyBag
    /\ rateLimitStore = <<>>

\* GET /papers
GetPapers(userKeyId, filters, pagination) ==
    /\ resp = NoResp
    /\ \E result \in getPapers(papers, userKeyId, filters, pagination, now) :
          resp' = [op |-> "getPapers", userKeyId |-> userKeyId, filters |-> filters,
                   pagination |-> pagination, result |-> result]
    /\ UNCHANGED <<papers, now, calls, rateLimitStore>>

\* GET /analytics
GetAnalytics(userKeyId, filters) ==
    /\ resp = NoResp
    /\ \E result \in getAnalytics(papers, userKeyId, filters, now) :
          resp' = [op |-> "getAnalytics", userKeyId |-> userKeyId, filters |-> filters,
                   result |-> result]
    /\ UNCHANGED <<papers, now, calls, rateLimitStore>>

QueryNext ==
    \/ Deliver
    \/ \E id \in 1..(Len(papers) + 1), u \in Owners : ArchivePaper(id, u)
    \/ \E r \in ListRequests : GetPapers(r.userKeyId, r.filters, r.pagination)
    \/ \E r \in AnalyticsRequests : GetAnalytics(r.userKeyId, r.filters)

QuerySpec == QueryInit /\ [][QueryNext]_vars

-----------------------------------------------------------------------------
(* Lifecycle specification: the sequential specification with the two      *)
(* reads, every operation of the services one call at a time.              *)

LifeNext ==
    \/ SeqNext
    \/ \E u \in Owners : GetPapers(u, <<>>, <<>>)
    \/ \E u \in Owners : GetAnalytics(u, <<>>)

LifeSpec == SeqInit /\ [][LifeNext]_vars

\* C14: over every step of create, update, archive, listing and analytics, a
\* paper that exists still exists after the step under its id, and is still
\* archived if it was.
C14_ArchivedAndIdsStay ==
    [][ \A i \in DOMAIN papers :
          \E j \in DOMAIN papers' :
              /\ papers'[j].id = papers[i].id
              /\ papers[i].isArchived => papers'[j].isArchived ]_vars

\* A paper was archived, then updated; the owner then created a second paper:
\* the first is still there and archived.
C14_Witness ==
    /\ resp.op = "createPaper"
    /\ resp.throws = ""
    /\ Len(papers) = 2
    /\ papers[1].isArchived
    /\ papers[1].readingStage = "Notes Completed"
    /\ papers[2].userKeyId = papers[1].userKeyId

-----------------------------------------------------------------------------
(* Properties of the query specification                                   *)

\* The scope as the specification words it: the row is the caller's, is not
\* archived, has its value in every list that is given and not empty, and was
\* added at or after the lower bound of a date range that has one.
InScope(row, userKeyId, filters, t) ==
    /\ row.userKeyId = userKeyId
    /\ ~row.isArchived
    /\ (Has(filters, "readingStages") /\ filters.readingStages # <<>>)
            => row.readingStage \in Range(filters.readingStages)
    /\ (Has(filters, "researchDomains") /\ filters.researchDomains # <<>>)
            => row.researchDomain \in Range(filters.researchDomains)
    /\ (Has(filters, "impactScores") /\ filters.impactScores # <<>>)
            => row.impactScore \in Range(filters.impactScores)
    /\ (Has(filters, "dateRange")
            /\ filters.dateRange \in {"THIS_WEEK", "THIS_MONTH", "LAST_3_MONTHS"})
            => row.dateAdded >= getDateRangeStart(filters.dateRange, t)[1]

\* The rows of the table in the scope of the request that resp answers.
ScopeOfResp ==
    { i \in DOMAIN papers : InScope(papers[i], resp.userKeyId, resp.filters, now) }

\* How often each value occurs in a sequence.
Occurrences(s) == [ x \in Range(s) |-> Cardinality({ i \in DOMAIN s : s[i] = x }) ]

RECURSIVE SumOf(_, _)
SumOf(s, i) == IF i > Len(s) THEN 0 ELSE s[i] + SumOf(s, i + 1)

\* The table without its i-th row.
Without(table, i) ==
    [ j \in 1..(Len(table) - 1) |-> IF j < i THEN table[j] ELSE table[j + 1] ]

\* C1: once a paper is archived it stays archived, and no listing and no
\* analytics of its owner shows it, whatever the filters and the page: every
\* response is one the table without that paper gives.
C1_ArchivedNeverVisible ==
    /\ [](\A i \in DOMAIN papers :
            (papers[i].isArchived /\ resp.op \in {"getPapers", "getAnalytics"}
                /\ resp.userKeyId = papers[i].userKeyId) =>
              IF resp.op = "getPapers"
              THEN /\ \A k \in DOMAIN resp.result.items :
                        resp.result.items[k].id # papers[i].id
                   /\ resp.result \in getPapers(Without(papers, i), resp.userKeyId,
                                                resp.filters, resp.pagination, now)
              ELSE resp.result \in getAnalytics(Without(papers, i), resp.userKeyId,
                                                resp.filters, now))
    /\ [][\A i \in DOMAIN papers :
            papers[i].isArchived =>
                /\ i \in DOMAIN papers'
                /\ papers'[i].id = papers[i].id
                /\ papers'[i].isArchived]_vars

\* A listing and an analytics answered a request whose filters an archived paper
\* of the caller satisfies.
C1_Witness ==
    /\ resp.op \in {"getPapers", "getAnalytics"}
    /\ \E i \in DOMAIN papers :
          /\ papers[i].isArchived
          /\ InScope([papers[i] EXCEPT !.isArchived = FALSE],
                     resp.userKeyId, resp.filters, now)
          /\ resp.filters \in { [dateRange |-> "THIS_WEEK", readingStages |-> <<FULLY_READ>>] }

\* C6: for the same owner, filters, table and instant, analytics aggregates the
\* records that the listing counts: summary.totalPapers is the listing's total,
\* and the scatter entries are those of the listed papers.
C6_ListingAndAnalyticsAgree ==
    resp.op = "getAnalytics" =>
        \A listed \in getPapers(papers, resp.userKeyId, resp.filters, <<>>, now) :
            /\ resp.result.summary.totalPapers = listed.pagination.total
            /\ Occurrences(resp.result.scatter) =
                  Occurrences([ k \in DOMAIN listed.items |->
                                  [citationCount |-> listed.items[k].citationCount,
                                   impactScore |-> listed.items[k].impactScore] ])

\* Analytics answered a filtered request that some papers of the caller satisfy
\* and others do not.
C6_Witness ==
    /\ resp.op = "getAnalytics"
    /\ resp.filters = [dateRange |-> "THIS_MONTH", readingStages |-> <<FULLY_READ>>]
    /\ resp.result.summary.totalPapers = 1
    /\ Cardinality({ i \in DOMAIN papers : papers[i].userKeyId = resp.userKeyId }) = 3

\* C7: the listing's total is the number of rows in scope; its items are the rows
\* at positions (page-1)*pageSize+1 .. page*pageSize of the rows in scope sorted by
\* dateAdded descending, so there are min(pageSize, max(0, total-(page-1)*pageSize))
\* of them.
C7_TotalAndPage ==
    resp.op = "getPapers" =>
        LET items == resp.result.items
            page == resp.result.pagination.page
            pageSize == resp.result.pagination.pageSize
            total == resp.result.pagination.total
            skip == (page - 1) * pageSize
            left == IF total - skip < 0 THEN 0 ELSE total - skip
            newer(d) == Cardinality({ i \in ScopeOfResp : papers[i].dateAdded > d })
            notOlder(d) == Cardinality({ i \in ScopeOfResp : papers[i].dateAdded >= d })
        IN  /\ total = Cardinality(ScopeOfResp)
            /\ Len(items) = IF pageSize < left THEN pageSize ELSE left
            /\ \A k \in DOMAIN items :
                  /\ \E i \in ScopeOfResp : items[k] = PaperItem(papers[i])
                  /\ \A l \in DOMAIN items : l # k => items[l].id # items[k].id
                  /\ newer(items[k].dateAdded) <= skip + k - 1
                  /\ notOlder(items[k].dateAdded) >= skip + k
            /\ \A k \in 1..(Len(items) - 1) : items[k].dateAdded >= items[k + 1].dateAdded

\* The second page of one paper of a listing of two papers in scope, with
\* another paper of the caller left out by the filter.
C7_Witness ==
    /\ resp.op = "getPapers"
    /\ resp.pagination = [page |-> 2, pageSize |-> 1]
    /\ resp.result.pagination.total = 2
    /\ Len(resp.result.items) = 1
    /\ \E i \in DOMAIN papers :
          papers[i].userKeyId = resp.userKeyId /\ ~papers[i].isArchived
            /\ i \notin ScopeOfResp

\* C8: a record is in the scope of a listing and of an analytics exactly when it
\* is the caller's, is not archived, has its value in every list that is given
\* and not empty, and was added at or after the lower bound of the date range;
\* an absent or empty list and a date range that is ALL_TIME, absent or not
\* recognised leave out no record.
C8_ScopedPredicate ==
    /\ (resp.op = "getPapers" /\ resp.pagination = <<>>) =>
          /\ { resp.result.items[k].id : k \in DOMAIN resp.result.items }
                = { papers[i].id : i \in ScopeOfResp }
          /\ resp.result.pagination.total = Cardinality(ScopeOfResp)
    /\ resp.op = "getAnalytics" =>
          /\ resp.result.summary.totalPapers = Cardinality(ScopeOfResp)
          /\ LET inScope == SelectSeq(papers, LAMBDA row :
                                InScope(row, resp.userKeyId, resp.filters, now))
             IN  Occurrences(resp.result.scatter)
                    = Occurrences([ k \in DOMAIN inScope |->
                                      [citationCount |-> inScope[k].citationCount,
                                       impactScore |-> inScope[k].impactScore] ])

\* A listing with empty lists showed all three papers of the caller.
C8_Witness ==
    /\ resp.op = "getPapers"
    /\ resp.filters = [researchDomains |-> <<>>, impactScores |-> <<>>]
    /\ Len(resp.result.items) = 3

\* C9: the funnel has six entries, one for each reading stage in the order of the
\* enumeration; each counts the records in scope at that stage, 0 when there is
\* none; the counts add up to summary.totalPapers.
C9_Funnel ==
    resp.op = "getAnalytics" =>
        LET funnel == resp.result.funnel
        IN  /\ [ k \in DOMAIN funnel |-> funnel[k].stage ]
                = << "Abstract Read", "Introduction Done", "Methodology Done",
                     "Results Analyzed", "Fully Read", "Notes Completed" >>
            /\ \A k \in DOMAIN funnel :
                  funnel[k].count =
                    Cardinality({ i \in ScopeOfResp : papers[i].readingStage = funnel[k].stage })
            /\ SumOf([ k \in DOMAIN funnel |-> funnel[k].count ], 1)
                = resp.result.summary.totalPapers

\* A funnel of three papers, two of them at the same stage.
C9_Witness ==
    /\ resp.op = "getAnalytics"
    /\ resp.result.summary.totalPapers = 3
    /\ \E k \in DOMAIN resp.result.funnel : resp.result.funnel[k].count = 2
    /\ \E k \in DOMAIN resp.result.funnel : resp.result.funnel[k].count = 0

\* C10: stackedBar has six entries, one for each research domain in the fixed
\* order; the keys of a domain's stages are the stages at which the domain has a
\* record in scope, each with the number of these records, so a domain without
\* records has no key and no key maps to 0; the counts add up to
\* summary.totalPapers.
C10_StackedBar ==
    resp.op = "getAnalytics" =>
        LET stackedBar == resp.result.stackedBar
            scope == ScopeOfResp
            counts(k) == [ j \in DOMAIN stackedBar[k].stages |-> stackedBar[k].stages[j].value ]
        IN  /\ [ k \in DOMAIN stackedBar |-> stackedBar[k].domain ]
                = << "Computer Science", "Biology", "Physics", "Chemistry",
                     "Mathematics", "Social Sciences" >>
            /\ \A k \in DOMAIN stackedBar :
                  LET stages == stackedBar[k].stages
                      here(stage) == { i \in scope :
                                        /\ papers[i].researchDomain = stackedBar[k].domain
                                        /\ papers[i].readingStage = stage }
                  IN  /\ \A j, l \in DOMAIN stages : stages[j].key = stages[l].key => j = l
                      /\ { stages[j].key : j \in DOMAIN stages }
                            = { stage \in Range(allStages) : here(stage) # {} }
                      /\ \A j \in DOMAIN stages :
                            /\ stages[j].value = Cardinality(here(stages[j].key))
                            /\ stages[j].value > 0
            /\ SumOf([ k \in DOMAIN stackedBar |-> SumOf(counts(k), 1) ], 1)
                = resp.result.summary.totalPapers

\* A stackedBar of three papers: a domain with two stages, a domain with one
\* stage, and domains without papers.
C10_Witness ==
    /\ resp.op = "getAnalytics"
    /\ resp.result.summary.totalPapers = 3
    /\ \E k \in DOMAIN resp.result.stackedBar : Len(resp.result.stackedBar[k].stages) = 2
    /\ \E k \in DOMAIN resp.result.stackedBar : Len(resp.result.stackedBar[k].stages) = 1
    /\ \E k \in DOMAIN resp.result.stackedBar : resp.result.stackedBar[k].stages = <<>>

\* C11: summary.fullyRead is the number of records in scope whose readingStage
\* is Fully Read; summary.completionRate is 0 when there is no record in scope
\* and is the quotient fullyRead / totalPapers otherwise, not rounded.
C11_CompletionRate ==
    resp.op = "getAnalytics" =>
        LET summary == resp.result.summary
            total == Cardinality(ScopeOfResp)
            read == Cardinality({ i \in ScopeOfResp : papers[i].readingStage = "Fully Read" })
        IN  /\ summary.fullyRead = read
            /\ total = 0 => summary.completionRate = [num |-> 0, den |-> 1]
            /\ total > 0 => /\ summary.completionRate.den > 0
                            /\ summary.completionRate.num * total
                                  = read * summary.completionRate.den

\* Two papers fully read out of three: the rate is 2/3.
C11_Witness ==
    /\ resp.op = "getAnalytics"
    /\ resp.result.summary.totalPapers = 3
    /\ resp.result.summary.fullyRead = 2
    /\ resp.result.summary.completionRate = [num |-> 2, den |-> 3]

\* C12: summary.avgCitationsByDomain has one key for each of the six research
\* domains; its value is the sum of the citationCount of the records in scope of
\* that domain divided by their number, the records of citationCount 0 counted,
\* and is 0 for a domain without a record in scope.
C12_AvgCitationsByDomain ==
    resp.op = "getAnalytics" =>
        LET avg == resp.result.summary.avgCitationsByDomain
            inScope == SelectSeq(papers, LAMBDA row :
                            InScope(row, resp.userKeyId, resp.filters, now))
        IN  /\ Len(avg) = 6
            /\ { avg[k].key : k \in DOMAIN avg }
                  = { "Computer Science", "Biology", "Physics", "Chemistry",
                      "Mathematics", "Social Sciences" }
            /\ \A k \in DOMAIN avg :
                  LET ofDomain == SelectSeq(inScope, LAMBDA row :
                                        row.researchDomain = avg[k].key)
                      citations == [ j \in DOMAIN ofDomain |-> ofDomain[j].citationCount ]
                  IN  IF ofDomain = <<>>
                      THEN avg[k].value = [num |-> 0, den |-> 1]
                      ELSE /\ avg[k].value.den > 0
                           /\ avg[k].value.num * Len(ofDomain)
                                 = SumOf(citations, 1) * avg[k].value.den

\* Physics with the citation counts 10 and 0 has the mean 5; Biology, with a
\* single paper of citation count 0, has the mean 0.
C12_Witness ==
    /\ resp.op = "getAnalytics"
    /\ resp.filters = <<>>
    /\ \E k \in DOMAIN resp.result.summary.avgCitationsByDomain :
          resp.result.summary.avgCitationsByDomain[k]
            = [key |-> "Physics", value |-> [num |-> 5, den |-> 1]]
    /\ \E k \in DOMAIN resp.result.summary.avgCitationsByDomain :
          resp.result.summary.avgCitationsByDomain[k]
            = [key |-> "Biology", value |-> [num |-> 0, den |-> 1]]
    /\ \E i \in DOMAIN papers :
          /\ papers[i].userKeyId = resp.userKeyId
          /\ papers[i].researchDomain = "Biology"
          /\ papers[i].citationCount = 0

-----------------------------------------------------------------------------
(* Rate limiter (middleware/rateLimiter.ts)                                *)

WINDOW_DURATION_MS == 60 * 1000

\* The limits of the two classes of requests.
READ_LIMIT == 2
WRITE_LIMIT == 1

\* Date.now() at the instant t of the model's clock: milliseconds, counted from
\* StartInstant (only differences and comparisons of these values are used)
DateNow(t) == (t - StartInstant) * 1000

getRequestType(method) == IF method = "GET" THEN "read" ELSE "write"

\* A store that forgets the other owners when it initialises an entry.
getRateLimitInfoAlone(store, userKeyId, t) ==
    IF userKeyId \in DOMAIN store THEN store
    ELSE userKeyId :> [ read  |-> [count |-> 0, resetTime |-> DateNow(t) + WINDOW_DURATION_MS],
                        write |-> [count |-> 0, resetTime |-> DateNow(t) + WINDOW_DURATION_MS] ]

\* getRateLimitInfo: the store after the owner's entry was looked up and, when
\* there was none, initialised
getRateLimitInfo(store, userKeyId, t) ==
    IF userKeyId \in DOMAIN store THEN store
    ELSE (userKeyId :> [ read  |-> [count |-> 0, resetTime |-> DateNow(t) + WINDOW_DURATION_MS],
                         write |-> [count |-> 0, resetTime |-> DateNow(t) + WINDOW_DURATION_MS] ])
            @@ store

\* A reset that waits until the reset time is past.
resetIfExpiredLate(info, t) ==
    IF DateNow(t) > info.resetTime
    THEN [count |-> 0, resetTime |-> DateNow(t) + WINDOW_DURATION_MS]
    ELSE info

resetIfExpired(info, t) ==
    IF DateNow(t) >= info.resetTime
    THEN [count |-> 0, resetTime |-> DateNow(t) + WINDOW_DURATION_MS]
    ELSE info

getLimit(requestType) == IF requestType = "read" THEN READ_LIMIT ELSE WRITE_LIMIT

\* A limiter that counts the request before it compares.
rateLimiterCountsFirst(store, userKeyId, method, t) ==
    LET requestType == getRequestType(method)
        looked == getRateLimitInfo(store, userKeyId, t)
        limitInfo == resetIfExpired(looked[userKeyId][requestType], t)
        counted == [limitInfo EXCEPT !.count = @ + 1]
    IN  [limited |-> counted.count > getLimit(requestType),
         store |-> [looked EXCEPT ![userKeyId][requestType] = counted]]

\* rateLimiter: whether the request is answered 429, and the store it leaves
rateLimiter(store, userKeyId, method, t) ==
    LET requestType == getRequestType(method)
        looked == getRateLimitInfo(store, userKeyId, t)
        limitInfo == resetIfExpired(looked[userKeyId][requestType], t)
        limit == getLimit(requestType)
    IN  IF limitInfo.count >= limit
        THEN [limited |-> TRUE,
              store |-> [looked EXCEPT ![userKeyId][requestType] = limitInfo]]
        ELSE [limited |-> FALSE,
              store |-> [looked EXCEPT ![userKeyId][requestType] =
                            [limitInfo EXCEPT !.count = @ + 1]]]

-----------------------------------------------------------------------------
(* Controllers: the response sent and the table left, after the rate       *)
(* limiter let the request of an authenticated owner pass                  *)

\* errorHandler.ts: an error the controller hands to next()
errorHandler(table) == [code |-> "INTERNAL_ERROR", data |-> Null, table |-> table]

createPaperController(table, userKeyId, body, t, id) ==
    LET done == createPaperInsert(table, id, createPaperFind(table, userKeyId, body),
                                  userKeyId, body, t)
    IN  { CASE done.throws = "" ->
                    [code |-> "PAPER_CREATED", data |-> Some([id |-> id]), table |-> done.table]
            [] done.throws = "DUPLICATE_PAPER" ->
                    [code |-> "DUPLICATE_PAPER", data |-> Null, table |-> table]
            [] OTHER -> errorHandler(table) }

updatePaperController(table, userKeyId, paperId, body) ==
    LET done == updatePaperWrite(table, findUnique(table, paperId), paperId, userKeyId, body)
    IN  { IF done.throws = ""
          THEN [code |-> "PAPER_UPDATED", data |-> Null, table |-> done.table]
          ELSE [code |-> "NOT_FOUND", data |-> Null, table |-> table] }

archivePaperController(table, userKeyId, paperId) ==
    LET done == archivePaperWrite(table, findUnique(table, paperId), paperId, userKeyId)
    IN  { IF done.throws = ""
          THEN [code |-> "PAPER_ARCHIVED", data |-> Null, table |-> done.table]
          ELSE [code |-> "NOT_FOUND", data |-> Null, table |-> table] }

getPapersController(table, userKeyId, filters, pagination, t) ==
    { [code |-> "PAPERS_FETCHED", data |-> Some(result), table |-> table] :
        result \in getPapers(table, userKeyId, filters, pagination, t) }

getAnalyticsController(table, userKeyId, filters, t) ==
    { [code |-> "ANALYTICS_FETCHED", data |-> Some(result), table |-> table] :
        result \in getAnalytics(table, userKeyId, filters, t) }

\* The controller of the route of the request, called for an authenticated
\* owner that the rate limiter let pass.
Controller(table, t, req, id) ==
    CASE req.route = "POST /papers" ->
            createPaperController(table, req.userKeyId, req.body, t, id)
      [] req.route = "PATCH /papers/:id" ->
            updatePaperController(table, req.userKeyId, req.id, req.body)
      [] req.route = "PATCH /papers/:id/archive" ->
            archivePaperController(table, req.userKeyId, req.id)
      [] req.route = "GET /papers" ->
            getPapersController(table, req.userKeyId, req.filters, <<>>, t)
      [] req.route = "GET /analytics" ->
            getAnalyticsController(table, req.userKeyId, req.filters, t)

\* A route: rateLimiter, then the controller. The responses the request of an
\* authenticated owner may get at the instant t, each with the table and the
\* store it leaves; id is the id the database generates if a row is inserted.
Serve(table, store, t, req, id) ==
    LET limiter == rateLimiter(store, req.userKeyId, req.method, t)
    IN  IF limiter.limited
        THEN { [code |-> "RATE_LIMITED", data |-> Null, table |-> table,
                store |-> limiter.store] }
        ELSE { [code |-> h.code, data |-> h.data, table |-> h.table,
                store |-> limiter.store] : h \in Controller(table, t, req, id) }

-----------------------------------------------------------------------------
(* Routes specification: the requests of the owners reach the routes one   *)
(* at a time, the clock advances between them.                             *)

\* How many minutes the clock of the routes specification runs.
MaxMinutes == 1

\* The requests an owner may send when the table is table.
ApiRequests(table) ==
    { [route |-> "POST /papers", method |-> "POST", userKeyId |-> r.userKeyId,
       body |-> r.data] : r \in ConcurrentCreateRequests }
    \cup
    { [route |-> "PATCH /papers/:id", method |-> "PATCH", userKeyId |-> u, id |-> id,
       body |-> [readingStage |-> NOTES_COMPLETED]] :
        u \in Owners, id \in 1..(Len(table) + 1) }
    \cup
    { [route |-> "PATCH /papers/:id/archive", method |-> "PATCH", userKeyId |-> u,
       id |-> id] : u \in Owners, id \in 1..(Len(table) + 1) }
    \cup
    { [route |-> "GET /papers", method |-> "GET", userKeyId |-> u, filters |-> f] :
        u \in Owners, f \in { [readingStages |-> <<FULLY_READ>>] } }
    \cup
    { [route |-> "GET /analytics", method |-> "GET", userKeyId |-> u, filters |-> <<>>] :
        u \in Owners }

ApiInit ==
    /\ papers = <<>>
    /\ now = StartInstant
    /\ resp = NoResp
    /\ calls = EmptyBag
    /\ rateLimitStore = <<>>

\* A minute passes.
Elapse ==
    /\ resp = NoResp
    /\ now + 60 <= StartInstant + MaxMinutes * 60
    /\ now' = now + 60
    /\ UNCHANGED <<papers, resp, calls, rateLimitStore>>

\* A request is served and answered.
Request(req) ==
    /\ resp = NoResp
    /\ \E served \in Serve(papers, rateLimitStore, now, req, generatedId(papers)) :
          /\ Len(served.table) <= MaxPapers
          /\ papers' = served.table
          /\ rateLimitStore' = served.store
          /\ resp' = [op |-> req.route, userKeyId |-> req.userKeyId,
                      code |-> served.code, data |-> served.data]
    /\ UNCHANGED <<now, calls>>

\* router.post / patch / get of paper.routes.ts and analytics.routes.ts
ApiNext ==
    \/ Deliver
    \/ Elapse
    \/ \E req \in ApiRequests(papers) : req.route = "POST /papers" /\ Request(req)
    \/ \E req \in ApiRequests(papers) : req.route = "PATCH /papers/:id" /\ Request(req)
    \/ \E req \in ApiRequests(papers) : req.route = "PATCH /papers/:id/archive" /\ Request(req)
    \/ \E req \in ApiRequests(papers) : req.route = "GET /papers" /\ Request(req)
    \/ \E req \in ApiRequests(papers) : req.route = "GET /analytics" /\ Request(req)

ApiSpec == ApiInit /\ [][ApiNext]_vars

-----------------------------------------------------------------------------
(* Properties of the routes specification                                  *)

\* What an owner has in the table and in the store.
OwnPapers(table, userKeyId) == SelectSeq(table, LAMBDA row : row.userKeyId = userKeyId)

OwnLimits(store, userKeyId) == [ k \in DOMAIN store \cap {userKeyId} |-> store[k] ]

\* What an owner gets from a request and has after it.
OwnOutcomes(served, userKeyId) ==
    { [code |-> s.code, data |-> s.data, papers |-> OwnPapers(s.table, userKeyId),
       limits |-> OwnLimits(s.store, userKeyId)] : s \in served }

\* C5: owners are independent. (1) In every state in which a request can be
\* served (the response to the last one was handed over), what a request of an
\* owner gets (the response
\* of a listing, an analytics, a create, an update or an archive) and leaves (the
\* owner's papers and rate-limit counters) is what it gets and leaves when the
\* table and the store hold nothing of the other owners. (2) A step that serves
\* the request of an owner (resp names the owner) leaves the papers and the
\* rate-limit counters of every other owner as they are.
C5_OwnersIndependent ==
    /\ [](\A req \in IF resp = NoResp THEN ApiRequests(papers) ELSE {} :
            OwnOutcomes(Serve(papers, rateLimitStore, now, req, generatedId(papers)),
                        req.userKeyId)
            = OwnOutcomes(Serve(OwnPapers(papers, req.userKeyId),
                                OwnLimits(rateLimitStore, req.userKeyId),
                                now, req, generatedId(papers)),
                          req.userKeyId))
    /\ [][(resp = NoResp /\ resp' # NoResp) =>
                \A other \in Owners \ {resp'.userKeyId} :
                    /\ OwnPapers(papers', other) = OwnPapers(papers, other)
                    /\ OwnLimits(rateLimitStore', other) = OwnLimits(rateLimitStore, other)]_vars

\* u1 created a paper that u2 has too, at a moment when u2 had used up its
\* writes of the window.
C5_Witness ==
    /\ resp.op = "POST /papers"
    /\ resp.userKeyId = "u1"
    /\ resp.code = "PAPER_CREATED"
    /\ \E i \in DOMAIN papers :
          papers[i].userKeyId = "u2" /\ papers[i].title = "T1" /\ papers[i].firstAuthor = "A1"
    /\ "u2" \in DOMAIN rateLimitStore
    /\ rateLimitStore["u2"].write.count = WRITE_LIMIT
    /\ DateNow(now) < rateLimitStore["u2"].write.resetTime


-----------------------------------------------------------------------------
(* Limiter specification: requests of authenticated owners are in flight   *)
(* together. A request is suspended in apiKeyAuth (its await); when it     *)
(* resumes, next() runs rateLimiter, which has no await and so runs to its *)
(* end as one step. calls keeps every request, with what rateLimiter       *)
(* answered and the window it was counted in.                              *)

\* How many requests arrive.
MaxRequests == 4

\* How many times the clock of the limiter specification advances, by 20 seconds.
MaxWaits == 3

LimiterInit ==
    /\ papers = <<>>
    /\ now = StartInstant
    /\ resp = NoResp
    /\ calls = EmptyBag
    /\ rateLimitStore = <<>>

\* A request arrives and waits in apiKeyAuth.
Arrive(userKeyId, method) ==
    /\ BagCardinality(calls) < MaxRequests
    /\ calls' = Begun([pc |-> "apiKeyAuth", userKeyId |-> userKeyId, method |-> method,
                       window |-> 0])
    /\ UNCHANGED <<papers, now, resp, rateLimitStore>>

\* apiKeyAuth resumes and calls next(): rateLimiter runs
Limit(call) ==
    /\ call.pc = "apiKeyAuth"
    /\ LET limiter == rateLimiter(rateLimitStore, call.userKeyId, call.method, now)
           window == limiter.store[call.userKeyId][getRequestType(call.method)].resetTime
       IN  /\ rateLimitStore' = limiter.store
           /\ calls' = Ended(call) (+)
                        SetToBag({ [call EXCEPT
                                      !.pc = IF limiter.limited THEN "RATE_LIMITED" ELSE "next",
                                      !.window = window] })
           /\ resp' = [op |-> "rateLimiter", userKeyId |-> call.userKeyId,
                       method |-> call.method,
                       code |-> IF limiter.limited THEN "RATE_LIMITED" ELSE "next"]
    /\ UNCHANGED <<papers, now>>

\* 20 seconds pass.
Wait ==
    /\ now + 20 <= StartInstant + MaxWaits * 20
    /\ now' = now + 20
    /\ UNCHANGED <<papers, resp, calls, rateLimitStore>>

LimiterNext ==
    \/ Arrive("u1", "GET") \/ Arrive("u1", "POST") \/ Arrive("u2", "GET")
    \/ \E call \in BagToSet(calls) : Limit(call)
    \/ Wait

LimiterSpec == LimiterInit /\ [][LimiterNext]_vars

-----------------------------------------------------------------------------
(* Properties of the limiter specification                                 *)

\* How many requests of the owner and class got the answer in the window.
Answered(answer, userKeyId, class, window) ==
    BagCardinality([ c \in { x \in BagToSet(calls) :
                                /\ x.pc = answer
                                /\ x.userKeyId = userKeyId
                                /\ getRequestType(x.method) = class
                                /\ x.window = window } |-> calls[c] ])

\* The windows in which requests of the owner and class were answered.
Windows(userKeyId, class) ==
    { x.window : x \in { y \in BagToSet(calls) :
                            /\ y.pc # "apiKeyAuth"
                            /\ y.userKeyId = userKeyId
                            /\ getRequestType(y.method) = class } }

\* C15: for an owner and a class with limit L, in one window of 60 seconds at
\* most L requests are admitted, and a request is rejected with RATE_LIMITED
\* only when L were admitted in the window: the first L are admitted, the
\* next is rejected. A request that arrives at the limiter at or after the reset
\* time of the window is admitted and starts a window of 60 seconds with count 1.
C15_WindowAndLimit ==
    /\ [](\A u \in Owners, class \in {"read", "write"} :
            LET L == IF class = "read" THEN READ_LIMIT ELSE WRITE_LIMIT
            IN  \A w \in Windows(u, class) :
                    /\ Answered("next", u, class, w) <= L
                    /\ Answered("RATE_LIMITED", u, class, w) > 0
                          => Answered("next", u, class, w) = L)
    /\ [][ \A call \in BagToSet(calls) :
              LET u == call.userKeyId
                  class == getRequestType(call.method)
                  ms == (now - StartInstant) * 1000
              IN  (/\ Limit(call)
                   /\ u \in DOMAIN rateLimitStore
                   /\ ms >= rateLimitStore[u][class].resetTime)
                  => /\ resp'.code = "next"
                     /\ rateLimitStore'[u][class]
                          = [count |-> 1, resetTime |-> ms + 60 * 1000] ]_vars

\* u1 read twice in its first window and was rejected the third time; its
\* read at the reset time of the window, a minute after the first, is admitted
\* and is the first of a new window.
C15_Witness ==
    /\ resp = [op |-> "rateLimiter", userKeyId |-> "u1", method |-> "GET", code |-> "next"]
    /\ now = StartInstant + 60
    /\ Answered("next", "u1", "read", 60000) = READ_LIMIT
    /\ Answered("RATE_LIMITED", "u1", "read", 60000) = 1
    /\ Answered("next", "u1", "read", 120000) = 1
    /\ rateLimitStore["u1"].read = [count |-> 1, resetTime |-> 120000]


\* C16: under every interleaving of the requests of an owner, the check and
\* the increment are one step: no counter exceeds its limit, the counter of
\* the current window is the number of requests admitted in it, no window
\* admits more than the limit, a rejected request leaves the counter as it
\* was, and a request leaves the counter of the other class as it was.
C16_CheckAndIncrementAtomic ==
    /\ [](\A u \in Owners, class \in {"read", "write"} :
            LET L == IF class = "read" THEN READ_LIMIT ELSE WRITE_LIMIT
            IN  /\ u \in DOMAIN rateLimitStore =>
                      /\ rateLimitStore[u][class].count <= L
                      /\ rateLimitStore[u][class].count
                           = Answered("next", u, class, rateLimitStore[u][class].resetTime)
                /\ \A w \in Windows(u, class) : Answered("next", u, class, w) <= L)
    /\ [][ \A call \in BagToSet(calls) :
              LET u == call.userKeyId
                  class == getRequestType(call.method)
                  other == IF class = "read" THEN "write" ELSE "read"
              IN  Limit(call) =>
                    /\ (u \in DOMAIN rateLimitStore
                          => rateLimitStore'[u][other] = rateLimitStore[u][other])
                    /\ (u \notin DOMAIN rateLimitStore
                          => rateLimitStore'[u][other].count = 0)
                    /\ (resp'.code = "RATE_LIMITED"
                          => /\ u \in DOMAIN rateLimitStore
                             /\ rateLimitStore'[u][class].count
                                  = rateLimitStore[u][class].count) ]_vars

\* Four requests of u1 were in flight together, three reads and a write: two
\* reads were admitted, the third was rejected, and the write was counted
\* apart from them.
C16_Witness ==
    /\ now = StartInstant
    /\ Answered("next", "u1", "read", 60000) = READ_LIMIT
    /\ Answered("RATE_LIMITED", "u1", "read", 60000) = 1
    /\ Answered("next", "u1", "write", 60000) = 1
    /\ rateLimitStore["u1"].read.count = READ_LIMIT
    /\ rateLimitStore["u1"].write.count = WRITE_LIMIT


-----------------------------------------------------------------------------
(* Authenticated routes specification: the requests carry an X-API-KEY     *)
(* header, or none, and pass apiKeyAuth, rateLimiter and the controller,  *)
(* one at a time within one window of the limiter.                         *)

\* utils/hash.ts: the SHA-256 digest of the key, taken as one-to-one
hashApiKey(apiKey) == <<"sha256", apiKey>>

\* The UserAccessKey rows: setup stored the hashed keys of the two owners.
UserAccessKeys ==
    << [id |-> "u1", hashedKey |-> hashApiKey("k1")],
       [id |-> "u2", hashedKey |-> hashApiKey("k2")] >>

\* An apiKeyAuth that takes the first row when the key resolves to none.
apiKeyAuthFirstRow(rows, apiKey) ==
    IF apiKey = Null \/ apiKey = Some("")
    THEN [code |-> "INVALID_API_KEY"]
    ELSE LET hashedKey == hashApiKey(apiKey[1])
             found == SelectSeq(rows, LAMBDA row : row.hashedKey = hashedKey)
         IN  IF found = <<>>
             THEN [code |-> "next", userKey |-> [id |-> rows[1].id]]
             ELSE [code |-> "next", userKey |-> [id |-> found[1].id]]

\* apiKeyAuth: the header x-api-key (Null when absent) is hashed and looked up;
\* 401 INVALID_API_KEY, or next() with req.userKey
apiKeyAuth(rows, apiKey) ==
    IF apiKey = Null \/ apiKey = Some("")
    THEN [code |-> "INVALID_API_KEY"]
    ELSE LET hashedKey == hashApiKey(apiKey[1])
             found == SelectSeq(rows, LAMBDA row : row.hashedKey = hashedKey)
         IN  IF found = <<>>
             THEN [code |-> "INVALID_API_KEY"]
             ELSE [code |-> "next", userKey |-> [id |-> found[1].id]]

\* router.post / patch / get (apiKeyAuth, rateLimiter, controller): the
\* responses the request may get at the instant t, each with the table and the
\* store it leaves and the handlers that ran, in the order in which they ran.
Route(table, store, t, request, id) ==
    LET auth == apiKeyAuth(UserAccessKeys, request.apiKey)
    IN  IF auth.code = "INVALID_API_KEY"
        THEN { [code |-> "INVALID_API_KEY", data |-> Null, table |-> table, store |-> store,
                userKeyId |-> "", ran |-> <<"apiKeyAuth">>] }
        ELSE LET req == [request EXCEPT !.userKeyId = auth.userKey.id]
                 limiter == rateLimiter(store, req.userKeyId, req.method, t)
             IN  IF limiter.limited
                 THEN { [code |-> "RATE_LIMITED", data |-> Null, table |-> table,
                         store |-> limiter.store, userKeyId |-> req.userKeyId,
                         ran |-> <<"apiKeyAuth", "rateLimiter">>] }
                 ELSE { [code |-> h.code, data |-> h.data, table |-> h.table,
                         store |-> limiter.store, userKeyId |-> req.userKeyId,
                         ran |-> <<"apiKeyAuth", "rateLimiter", "controller">>] :
                          h \in Controller(table, t, req, id) }

\* The key of each owner.
ApiKeyOf(userKeyId) == IF userKeyId = "u1" THEN "k1" ELSE "k2"

\* The requests that reach the routes when the table is table, with the key
\* of their owner, with no key, an empty one and a key of nobody; req.userKey
\* is not set ("") before apiKeyAuth sets it.
HttpRequests(table) ==
    { With([r EXCEPT !.userKeyId = ""], "apiKey", Some(ApiKeyOf(r.userKeyId))) :
        r \in ApiRequests(table) }
    \cup
    { With([r EXCEPT !.userKeyId = ""], "apiKey", k) :
        r \in { x \in ApiRequests(table) : x.userKeyId = "u1" },
        k \in { Null, Some(""), Some("k9") } }

\* A request passes its route and is answered.
HttpRequest(request) ==
    /\ resp = NoResp
    /\ \E served \in Route(papers, rateLimitStore, now, request, generatedId(papers)) :
          /\ Len(served.table) <= MaxPapers
          /\ papers' = served.table
          /\ rateLimitStore' = served.store
          /\ resp' = [op |-> request.route, apiKey |-> request.apiKey,
                      userKeyId |-> served.userKeyId, code |-> served.code,
                      data |-> served.data, ran |-> served.ran]
    /\ UNCHANGED <<now, calls>>

\* The routes of paper.routes.ts, and the route of analytics.routes.ts
RouteNext ==
    \/ Deliver
    \/ \E request \in HttpRequests(papers) :
          request.route # "GET /analytics" /\ HttpRequest(request)
    \/ \E request \in HttpRequests(papers) :
          request.route = "GET /analytics" /\ HttpRequest(request)

RouteSpec == ApiInit /\ [][RouteNext]_vars

\* C17: a request passes apiKeyAuth, then rateLimiter, then the controller.
\* A request whose key is absent or resolves to no owner is answered
\* INVALID_API_KEY by apiKeyAuth alone, and no rate-limit counter and no paper
\* changes; a request answered RATE_LIMITED passed apiKeyAuth and rateLimiter
\* only, and no paper changes; every other request passed the three in order.
C17_MiddlewareOrder ==
    [][ (resp = NoResp /\ resp' # NoResp) =>
          /\ (resp'.apiKey \notin { Some(ApiKeyOf(u)) : u \in Owners })
                => /\ resp'.code = "INVALID_API_KEY"
                   /\ resp'.ran = <<"apiKeyAuth">>
                   /\ rateLimitStore' = rateLimitStore
                   /\ papers' = papers
          /\ (resp'.apiKey \in { Some(ApiKeyOf(u)) : u \in Owners })
                => /\ resp'.code # "INVALID_API_KEY"
                   /\ resp'.userKeyId \in Owners
                   /\ resp'.apiKey = Some(ApiKeyOf(resp'.userKeyId))
          /\ resp'.code = "RATE_LIMITED"
                => /\ resp'.ran = <<"apiKeyAuth", "rateLimiter">>
                   /\ papers' = papers
          /\ resp'.code \notin {"INVALID_API_KEY", "RATE_LIMITED"}
                => resp'.ran = <<"apiKeyAuth", "rateLimiter", "controller">> ]_vars

\* A create with a key of nobody was answered INVALID_API_KEY when u1 had a
\* paper and had used up the writes of its window.
C17_Witness ==
    /\ resp.op = "POST /papers"
    /\ resp.apiKey = Some("k9")
    /\ resp.code = "INVALID_API_KEY"
    /\ Len(papers) = 1
    /\ "u1" \in DOMAIN rateLimitStore
    /\ rateLimitStore["u1"].write.count = WRITE_LIMIT


-----------------------------------------------------------------------------
(* Query strings: what the controllers make of req.query                   *)

\* A query parameter as Express parses it: a string, or an array of strings
\* when the parameter is repeated. A string that is parsed is the sequence of
\* its characters.
Str(s) == [isArray |-> FALSE, items |-> <<s>>]
Arr(items) == [isArray |-> TRUE, items |-> items]

\* parseInt(string, 10): blanks, a sign, then digits up to the first character
\* that is no digit; NaN (Null) when no digit follows the sign
parseInt(chars) ==
    LET IsDigit(c) == c \in {"0", "1", "2", "3", "4", "5", "6", "7", "8", "9"}
        DigitValue(c) ==
            CASE c = "0" -> 0 [] c = "1" -> 1 [] c = "2" -> 2 [] c = "3" -> 3
              [] c = "4" -> 4 [] c = "5" -> 5 [] c = "6" -> 6 [] c = "7" -> 7
              [] c = "8" -> 8 [] c = "9" -> 9
        RECURSIVE parseDigits(_, _)
        parseDigits(k, acc) ==
            IF k > Len(chars) \/ ~IsDigit(chars[k]) THEN acc
            ELSE parseDigits(k + 1, acc * 10 + DigitValue(chars[k]))
        RECURSIVE skipBlanks(_)
        skipBlanks(k) == IF k <= Len(chars) /\ chars[k] = " " THEN skipBlanks(k + 1) ELSE k
        i == skipBlanks(1)
        signed == i <= Len(chars) /\ chars[i] \in {"+", "-"}
        j == IF signed THEN i + 1 ELSE i
    IN  IF j > Len(chars) \/ ~IsDigit(chars[j]) THEN Null
        ELSE IF signed /\ chars[i] = "-" THEN Some(0 - parseDigits(j, 0))
        ELSE Some(parseDigits(j, 0))

\* One pagination parameter of getPapers' controller: the first value of a
\* repeated parameter; parseInt of a string that is not empty, and the
\* default otherwise.
parsePaginationParam(query, name, default) ==
    IF ~Has(query, name) THEN Some(default)
    ELSE LET param == query[name].items[1]
         IN  IF param # <<>> THEN parseInt(param) ELSE Some(default)

\* A pagination parameter that falls back to the default when it is absent,
\* not a number, zero or negative.
paginationParamOrDefault(query, name, default) ==
    LET parsed == parsePaginationParam(query, name, default)
    IN  IF parsed = Null \/ parsed[1] <= 0 THEN default ELSE parsed[1]


\* The filters the controllers of GET /papers and GET /analytics build from
\* req.query: of each list parameter that is given (there, and not the empty
\* string) the values that are strings, as they are (every value of the model
\* is a string); dateRange when it is one string.
parseFilters(query) ==
    LET Given(name) == Has(query, name) /\ (query[name].isArray \/ query[name].items[1] # "")
        f0 == <<>>
        f1 == IF Given("readingStages")
              THEN With(f0, "readingStages", query.readingStages.items) ELSE f0
        f2 == IF Given("domains")
              THEN With(f1, "researchDomains", query.domains.items) ELSE f1
        f3 == IF Given("impactScores")
              THEN With(f2, "impactScores", query.impactScores.items) ELSE f2
    IN  IF Given("dateRange") /\ ~query.dateRange.isArray
        THEN With(f3, "dateRange", query.dateRange.items[1]) ELSE f3

\* The ReadingStage, ResearchDomain and ImpactScore enumerations of @prisma/client
EnumOf(field) ==
    CASE field = "readingStage" -> Range(allStages)
      [] field = "researchDomain" -> Range(allDomains)
      [] field = "impactScore" -> {HIGH_IMPACT, MEDIUM_IMPACT, LOW_IMPACT, UNKNOWN}

\* The client validates a where object before it queries: a value of an in
\* list that is no member of the enumeration of the column is an error.
whereRejected(where) ==
    \E k \in DOMAIN where \cap {"readingStage", "researchDomain", "impactScore"} :
        \E i \in DOMAIN where[k].in : where[k].in[i] \notin EnumOf(k)

\* findMany with a take that may be negative: a negative take takes from the
\* end of the ordered rows, and skip skips from the end.
findManyPageSigned(table, where, skip, take) ==
    LET Reverse(rows) == [ i \in DOMAIN rows |-> rows[Len(rows) + 1 - i] ]
        FromEnd(rows) == Reverse(Slice(Reverse(rows), skip, 0 - take))
    IN  IF take >= 0 THEN findManyPage(table, where, skip, take)
        ELSE { [ i \in DOMAIN FromEnd(rows) |-> PaperItem(FromEnd(rows)[i]) ] :
                rows \in ArrangementsByDateAddedDesc(Select(table, where)) }

\* The controller of GET /papers with the service it calls, from req.query to
\* the response: page and pageSize are what parseInt gives; the client rejects
\* a where object with a value outside an enumeration, a skip or a take that is
\* NaN and a negative skip, and the error goes to the error handler.
getPapersHandler(table, userKeyId, query, t) ==
    LET filters == parseFilters(query)
        page == parsePaginationParam(query, "page", 1)
        pageSize == parsePaginationParam(query, "pageSize", 10)
        where == PapersWhere(userKeyId, filters, t)
    IN  IF \/ whereRejected(where)
           \/ page = Null
           \/ pageSize = Null
           \/ (page[1] - 1) * pageSize[1] < 0
        THEN { errorHandler(table) }
        ELSE { [code |-> "PAPERS_FETCHED",
                data |-> Some([ items |-> items,
                                pagination |-> [page |-> page[1], pageSize |-> pageSize[1],
                                                total |-> count(table, where)] ]),
                table |-> table] :
                 items \in findManyPageSigned(table, where,
                                              (page[1] - 1) * pageSize[1], pageSize[1]) }

\* The controller of GET /analytics with the service it calls
getAnalyticsHandler(table, userKeyId, query, t) ==
    LET filters == parseFilters(query)
    IN  IF whereRejected(buildWhereClause(userKeyId, filters, t))
        THEN { errorHandler(table) }
        ELSE getAnalyticsController(table, userKeyId, filters, t)


-----------------------------------------------------------------------------
(* Query string specification: listings and analytics are asked for with   *)
(* the query strings a client may send, on the tables of the catalogue.    *)

\* page and pageSize, each absent or: no number, zero, negative, positive,
\* empty, given twice.
PaginationQueries ==
    LET params == { Str(<<"a", "b", "c">>), Str(<<"0">>), Str(<<"-", "1">>), Str(<<"1">>),
                    Str(<<"2">>), Str(<<>>), Arr(<< <<"2">>, <<"1">> >>) }
    IN  UNION { [D -> params] : D \in SUBSET {"page", "pageSize"} }

\* Filters in the query string: members of the enumerations, values that are
\* none, both together, and the empty string.
FilterQueries ==
    { [readingStages |-> Str(FULLY_READ)],
      [readingStages |-> Str("Skimmed")],
      [readingStages |-> Arr(<<FULLY_READ, "Skimmed">>)],
      [readingStages |-> Str("")],
      [domains |-> Str("Astrology")],
      [domains |-> Arr(<<"Astrology", PHYSICS>>)],
      [impactScores |-> Str("Huge")],
      [impactScores |-> Arr(<<HIGH_IMPACT, "Huge">>)],
      [readingStages |-> Str(FULLY_READ), domains |-> Str(PHYSICS),
       dateRange |-> Str("THIS_WEEK")],
      [readingStages |-> Str("Skimmed"), page |-> Str(<<"1">>), pageSize |-> Str(<<"2">>)] }

\* GET /papers with a query string
GetPapersQuery(userKeyId, query) ==
    /\ resp = NoResp
    /\ \E served \in getPapersHandler(papers, userKeyId, query, now) :
          resp' = [op |-> "GET /papers", userKeyId |-> userKeyId, query |-> query,
                   code |-> served.code, data |-> served.data]
    /\ UNCHANGED <<papers, now, calls, rateLimitStore>>

\* GET /analytics with a query string
GetAnalyticsQuery(userKeyId, query) ==
    /\ resp = NoResp
    /\ \E served \in getAnalyticsHandler(papers, userKeyId, query, now) :
          resp' = [op |-> "GET /analytics", userKeyId |-> userKeyId, query |-> query,
                   code |-> served.code, data |-> served.data]
    /\ UNCHANGED <<papers, now, calls, rateLimitStore>>

QueryStringNext ==
    \/ Deliver
    \/ \E u \in Owners, q \in PaginationQueries \cup FilterQueries : GetPapersQuery(u, q)
    \/ \E u \in Owners, q \in FilterQueries : GetAnalyticsQuery(u, q)

QueryStringSpec == QueryInit /\ [][QueryStringNext]_vars

\* C18: a listing never fails on page and pageSize: when a parameter is
\* absent, no number, zero or negative, getPapers runs with the default for it
\* (page 1, pageSize 10), and the response is PAPERS_FETCHED with what getPapers
\* gives for that pagination. (Requests whose filters are members of the
\* enumerations.)
C18_PaginationDefaults ==
    (resp.op = "GET /papers"
        /\ ~whereRejected(PapersWhere(resp.userKeyId, parseFilters(resp.query), now)))
    => /\ resp.code = "PAPERS_FETCHED"
       /\ resp.data[1] \in
            getPapers(papers, resp.userKeyId, parseFilters(resp.query),
                      [page |-> paginationParamOrDefault(resp.query, "page", 1),
                       pageSize |-> paginationParamOrDefault(resp.query, "pageSize", 10)],
                      now)


\* The filters without the values that are no members of their enumeration.
membersOnly(filters) ==
    [ k \in DOMAIN filters |->
        CASE k = "readingStages" ->
                SelectSeq(filters[k], LAMBDA v : v \in EnumOf("readingStage"))
          [] k = "researchDomains" ->
                SelectSeq(filters[k], LAMBDA v : v \in EnumOf("researchDomain"))
          [] k = "impactScores" ->
                SelectSeq(filters[k], LAMBDA v : v \in EnumOf("impactScore"))
          [] OTHER -> filters[k] ]

\* C19: a value of readingStages, domains or impactScores that is no member of
\* its enumeration is dropped: the listing or the analytics request succeeds
\* and returns what it returns without that value (a list that is empty after
\* the dropping does not constrain). (Requests whose pagination is valid.)
C19_NonMembersDropped ==
    (resp.op \in {"GET /papers", "GET /analytics"} /\ resp.query \in FilterQueries)
    => IF resp.op = "GET /papers"
       THEN /\ resp.code = "PAPERS_FETCHED"
            /\ resp.data[1] \in
                 getPapers(papers, resp.userKeyId, membersOnly(parseFilters(resp.query)),
                           [page |-> paginationParamOrDefault(resp.query, "page", 1),
                            pageSize |-> paginationParamOrDefault(resp.query, "pageSize", 10)],
                           now)
       ELSE /\ resp.code = "ANALYTICS_FETCHED"
            /\ resp.data[1] \in
                 getAnalytics(papers, resp.userKeyId, membersOnly(parseFilters(resp.query)), now)


-----------------------------------------------------------------------------
(* Create request specification: papers are created from request bodies    *)
(* that hold every field or lack some.                                     *)

\* The controller of POST /papers with the service it calls, on a body in
\* which fields may be missing. The controller passes the six fields on as they
\* are (undefined when missing). findFirst leaves a condition on an undefined
\* value out of its where object; prisma.paper.create rejects data without a
\* required field, and the error goes to the error handler.
createPaperHandler(table, userKeyId, body, t, id) ==
    LET required == {"title", "firstAuthor", "researchDomain", "readingStage",
                     "citationCount", "impactScore"}
        where == [ k \in (DOMAIN body \cap {"title", "firstAuthor"}) \cup {"userKeyId"} |->
                     IF k = "userKeyId" THEN userKeyId ELSE body[k] ]
    IN  IF required \subseteq DOMAIN body
        THEN createPaperController(table, userKeyId, body, t, id)
        ELSE IF findFirst(table, where) # Null
        THEN { [code |-> "DUPLICATE_PAPER", data |-> Null, table |-> table] }
        ELSE { errorHandler(table) }

\* Request bodies of a create: the complete ones, the first of them without
\* one of its fields, the empty body, and a complete one whose citationCount
\* is negative.
CreateBodies ==
    CreateInputs
    \cup { [ k \in DOMAIN T1A1 \ {missing} |-> T1A1[k] ] : missing \in DOMAIN T1A1 }
    \cup { <<>> }
    \cup { [title |-> "T4", firstAuthor |-> "A4", researchDomain |-> CHEMISTRY,
            readingStage |-> ABSTRACT_READ, citationCount |-> -3,
            impactScore |-> UNKNOWN] }

\* POST /papers with a request body
PostPapersBody(userKeyId, body) ==
    /\ resp = NoResp
    /\ \E served \in createPaperHandler(papers, userKeyId, body, now, generatedId(papers)) :
          /\ Len(served.table) <= MaxPapers
          /\ papers' = served.table
          /\ resp' = [op |-> "POST /papers", userKeyId |-> userKeyId, body |-> body,
                      code |-> served.code, data |-> served.data]
    /\ UNCHANGED <<now, calls, rateLimitStore>>

CreateNext ==
    \/ Deliver
    \/ \E u \in Owners, body \in CreateBodies : PostPapersBody(u, body)

CreateSpec == Init /\ [][CreateNext]_vars

\* C20: a create request whose body lacks title, firstAuthor, researchDomain,
\* readingStage, citationCount or impactScore is answered VALIDATION_ERROR,
\* and no paper is created.
C20_MissingFieldRejected ==
    [][ (resp = NoResp /\ resp' # NoResp
           /\ ~({"title", "firstAuthor", "researchDomain", "readingStage",
                 "citationCount", "impactScore"} \subseteq DOMAIN resp'.body))
        => /\ resp'.code = "VALIDATION_ERROR"
           /\ papers' = papers ]_vars


-----------------------------------------------------------------------------
(* Time window specification: getDateRangeStart is called at instants of   *)
(* every day of more than a year, at midnight, in the morning and in the   *)
(* last second of the day. Local time has no daylight saving shift.        *)

\* How many days, from 2024-01-01 on, the instants are drawn from.
MaxResolverDays == 400

ResolverInit ==
    /\ papers = <<>>
    /\ now \in { d * SecondsPerDay + s :
                    d \in 0..(MaxResolverDays - 1), s \in {0, 10 * 3600, SecondsPerDay - 1} }
    /\ resp = NoResp
    /\ calls = EmptyBag
    /\ rateLimitStore = <<>>

\* getDateRangeStart(dateRange) of paper.service.ts and of analytics.service.ts
Resolve(dateRange) ==
    /\ resp = NoResp
    /\ resp' = [op |-> "getDateRangeStart", dateRange |-> dateRange,
                start |-> getDateRangeStart(dateRange, now),
                startAnalytics |-> getDateRangeStartAnalytics(dateRange, now)]
    /\ UNCHANGED <<papers, now, calls, rateLimitStore>>

ResolverNext ==
    \/ Deliver
    \/ \E dateRange \in {"THIS_WEEK", "THIS_MONTH", "LAST_3_MONTHS", "ALL_TIME", "YESTERDAY"} :
          Resolve(dateRange)

ResolverSpec == ResolverInit /\ [][ResolverNext]_vars

\* C21: THIS_WEEK resolves, in both services, to the midnight of the most
\* recent Monday on or before now: the day of now when it is a Monday, two
\* days before a Wednesday, six days before a Sunday; never after now and
\* never the next Monday. (Day 0 of the model's time is a Monday, so the
\* Monday of the week of the day d is d - d % 7.)
C21_ThisWeekMonday ==
    (resp.op = "getDateRangeStart" /\ resp.dateRange = "THIS_WEEK")
    => /\ resp.start # Null
       /\ resp.startAnalytics = resp.start
       /\ resp.start[1] = (DayOf(now) - (DayOf(now) % 7)) * SecondsPerDay
       /\ resp.start[1] <= now
       /\ now - resp.start[1] < 7 * SecondsPerDay

\* THIS_WEEK was resolved in the last second of a Sunday, and the Monday six
\* days before lies in the month before.
C21_Witness ==
    /\ resp.op = "getDateRangeStart"
    /\ resp.dateRange = "THIS_WEEK"
    /\ DayOf(now) % 7 = 6
    /\ now % SecondsPerDay = SecondsPerDay - 1
    /\ resp.start = Some((DayOf(now) - 6) * SecondsPerDay)
    /\ getMonth(resp.start[1]) # getMonth(now)


\* C27: LAST_3_MONTHS resolves, in both services, to the midnight of the date
\* three calendar months before now: the day of the month of now in the month
\* three months earlier, or the last day of that month when it is shorter.
C27_ThreeMonthsClamped ==
    (resp.op = "getDateRangeStart" /\ resp.dateRange = "LAST_3_MONTHS")
    => LET first == DayNumber(getFullYear(now), getMonth(now) - 3, 1) * SecondsPerDay
           length == DaysInMonth(getFullYear(first), getMonth(first))
           day == IF getDate(now) <= length THEN getDate(now) ELSE length
       IN  /\ resp.start = Some(first + (day - 1) * SecondsPerDay)
           /\ resp.startAnalytics = resp.start


\* C22: on unchanged data a listing has one result: every call with the owner,
\* the filters, the page and the page size of the response returns the items
\* of the response, in their order, also when papers share their dateAdded;
\* and the pages of two papers together hold every paper of the scope once.
C22_StableOrder ==
    resp.op = "getPapers"
    => /\ \A again \in getPapers(papers, resp.userKeyId, resp.filters, resp.pagination, now) :
             again.items = resp.result.items
       /\ resp.pagination = [page |-> 1, pageSize |-> 2]
             => \A second \in getPapers(papers, resp.userKeyId, resp.filters,
                                        [page |-> 2, pageSize |-> 2], now) :
                   LET both == resp.result.items \o second.items
                   IN  /\ Len(both) = resp.result.pagination.total
                       /\ \A i, j \in DOMAIN both : both[i].id = both[j].id => i = j


\* C23: archive is the last step of the life of a paper: no step changes the
\* researchDomain, the readingStage or the citationCount of a paper that is
\* archived.
C23_ArchiveTerminal ==
    [][ \A i \in DOMAIN papers :
          papers[i].isArchived =>
            /\ papers'[i].researchDomain = papers[i].researchDomain
            /\ papers'[i].readingStage = papers[i].readingStage
            /\ papers'[i].citationCount = papers[i].citationCount ]_vars


\* C24: the citationCount of every paper is a non-negative integer, whatever
\* the request bodies carried.
C24_CitationCountNonNegative ==
    \A i \in DOMAIN papers : papers[i].citationCount \in Nat


\* C25: the window of an owner and class starts at the first request of the
\* class that is counted in it: when the limiter counts a request as the first
\* of its window (the counter becomes 1), the window is reset 60 seconds after
\* that request and not earlier, also when the entry of the owner was made by
\* a request of the other class.
C25_WindowFromFirstRequest ==
    [][ \A call \in BagToSet(calls) :
          LET u == call.userKeyId
              class == getRequestType(call.method)
          IN  (Limit(call) /\ resp'.code = "next" /\ rateLimitStore'[u][class].count = 1)
              => rateLimitStore'[u][class].resetTime
                   >= (now - StartInstant) * 1000 + 60 * 1000 ]_vars


-----------------------------------------------------------------------------
(* Interleaved listing specification: getPapers awaits its count query and *)
(* then its page query; creates and archives of the interleaved            *)
(* specification may run between the two.                                  *)

\* getPapers up to the end of its count query (no filters, default pagination)
ListBegin(userKeyId) ==
    /\ BagCardinality(calls) < MaxCalls
    /\ calls' = Begun([pc |-> "getPapers", userKeyId |-> userKeyId,
                       total |-> count(papers, PapersWhere(userKeyId, <<>>, now))])
    /\ UNCHANGED <<papers, now, resp, rateLimitStore>>

\* getPapers from its page query to its end
ListEnd(call) ==
    /\ call.pc = "getPapers"
    /\ \E items \in findManyPage(papers, PapersWhere(call.userKeyId, <<>>, now), 0, 10) :
          resp' = [op |-> "getPapers", userKeyId |-> call.userKeyId,
                   result |-> [items |-> items,
                               pagination |-> [page |-> 1, pageSize |-> 10,
                                               total |-> call.total]]]
    /\ calls' = Ended(call)
    /\ UNCHANGED <<papers, now, rateLimitStore>>

ListNext ==
    \/ Next
    \/ \E u \in Owners : ListBegin(u)
    \/ \E call \in BagToSet(calls) : ListEnd(call)

ListSpec == Init /\ [][ListNext]_vars

\* C26: total and items of one getPapers call agree, also when a create or an
\* archive of the owner runs between its count query and its page query: there
\* are never more items than total, and on page 1 with a page size of at least
\* total there are total items.
C26_TotalAndItemsAgree ==
    resp.op = "getPapers"
    => /\ Len(resp.result.items) <= resp.result.pagination.total
       /\ (resp.result.pagination.page = 1
             /\ resp.result.pagination.pageSize >= resp.result.pagination.total)
          => Len(resp.result.items) = resp.result.pagination.total


\* C28: the analytics are a function of the set of the records in scope: every
\* call on the unchanged table with the owner and the filters of the response
\* gives the funnel, the scatter (with the order of its entries), the stacked
\* bars (with the order of the keys of every stages mapping) and the summary
\* of the response, in whatever order the database returns the rows.
C28_AnalyticsDeterministic ==
    resp.op = "getAnalytics"
    => \A again \in getAnalytics(papers, resp.userKeyId, resp.filters, now) :
          /\ again.funnel = resp.result.funnel
          /\ again.scatter = resp.result.scatter
          /\ again.stackedBar = resp.result.stackedBar
          /\ again.summary = resp.result.summary


-----------------------------------------------------------------------------
(* Library page specification: the page of the first owner on a table of   *)
(* eleven of their papers. resp is the state of the component (filters,    *)
(* page, and the papers and total it displays), calls are the fetches in   *)
(* flight, each with the filters and page of the render that issued it.    *)

\* The most fetches in flight at once.
MaxFetches == 2

\* The component after its first render and the effect of its mount: nothing
\* displayed, the fetch for no filter and page 1 in flight. The owner's papers
\* were added one a day from May 18 to May 28; it is Wednesday May 29.
LibraryInit ==
    /\ papers = [ i \in 1..11 |->
                    [ id |-> i, title |-> "T1", firstAuthor |-> "A1",
                      researchDomain |-> IF i % 3 = 0 THEN PHYSICS ELSE BIOLOGY,
                      readingStage |-> IF i % 2 = 0 THEN FULLY_READ ELSE ABSTRACT_READ,
                      citationCount |-> i, impactScore |-> UNKNOWN,
                      dateAdded |-> At(5, 17 + i, 9, 0, 0),
                      isArchived |-> FALSE, userKeyId |-> "u1" ] ]
    /\ now = At(5, 29, 10, 0, 0)
    /\ resp = [op |-> "Library",
               filters |-> [readingStages |-> <<>>, domains |-> <<>>,
                            impactScores |-> <<>>, dateRange |-> ""],
               page |-> 1, papers |-> <<>>, total |-> 0,
               loading |-> TRUE, error |-> Null]
    /\ calls = SetToBag({[pc |-> "fetchPapers",
                          filters |-> [readingStages |-> <<>>, domains |-> <<>>,
                                       impactScores |-> <<>>, dateRange |-> ""],
                          page |-> 1]})
    /\ rateLimitStore = <<>>

\* The render after filters or page changed, and its effect: fetchPapers of
\* that render starts (loading is set, the error cleared) and awaits its GET.
useEffect(filters, page) ==
    /\ BagCardinality(calls) < MaxFetches
    /\ resp' = [resp EXCEPT !.filters = filters, !.page = page,
                            !.loading = TRUE, !.error = Null]
    /\ calls' = Begun([pc |-> "fetchPapers", filters |-> filters, page |-> page])
    /\ UNCHANGED <<papers, now, rateLimitStore>>

\* A checkbox of a list filter: the value leaves the list or joins its end.
toggleFilter(filterKey, value) ==
    LET currentArray == resp.filters[filterKey]
        newArray == IF \E i \in DOMAIN currentArray : currentArray[i] = value
                    THEN SelectSeq(currentArray, LAMBDA v : v # value)
                    ELSE Append(currentArray, value)
    IN  useEffect([resp.filters EXCEPT ![filterKey] = newArray], 1)

setDateFilter(value) == useEffect([resp.filters EXCEPT !.dateRange = value], 1)

clearFilters ==
    useEffect([readingStages |-> <<>>, domains |-> <<>>, impactScores |-> <<>>,
               dateRange |-> ""], 1)

\* totalPages is Math.ceil(total / pageSize) of the total displayed
handlePrevPage == resp.page > 1 /\ useEffect(resp.filters, resp.page - 1)

handleNextPage ==
    /\ resp.page < (resp.total + 10 - 1) \div 10
    /\ useEffect(resp.filters, resp.page + 1)

\* fetchPapers from the end of its await: the query string was built from the
\* filters and the page of its render; the response is set as the papers and
\* the total displayed, or the request failed and its message is set as the
\* error; loading ends.
fetchPapers(call) ==
    LET toString(n) ==
            LET digit(d) == CASE d = 0 -> "0" [] d = 1 -> "1" [] d = 2 -> "2" [] d = 3 -> "3"
                              [] d = 4 -> "4" [] d = 5 -> "5" [] d = 6 -> "6" [] d = 7 -> "7"
                              [] d = 8 -> "8" [] d = 9 -> "9"
            IN  IF n < 10 THEN <<digit(n)>> ELSE <<digit(n \div 10), digit(n % 10)>>
        appended(values) == IF Len(values) = 1 THEN Str(values[1]) ELSE Arr(values)
        q0 == [page |-> Str(toString(call.page)), pageSize |-> Str(toString(10))]
        q1 == IF Len(call.filters.readingStages) > 0
              THEN With(q0, "readingStages", appended(call.filters.readingStages)) ELSE q0
        q2 == IF Len(call.filters.domains) > 0
              THEN With(q1, "domains", appended(call.filters.domains)) ELSE q1
        q3 == IF Len(call.filters.impactScores) > 0
              THEN With(q2, "impactScores", appended(call.filters.impactScores)) ELSE q2
        queryParams == IF call.filters.dateRange # ""
                       THEN With(q3, "dateRange", Str(call.filters.dateRange)) ELSE q3
    IN  /\ call.pc = "fetchPapers"
        /\ \/ \E served \in getPapersHandler(papers, "u1", queryParams, now) :
                 IF served.code = "PAPERS_FETCHED"
                 THEN resp' = [resp EXCEPT !.papers = served.data[1].items,
                                           !.total = served.data[1].pagination.total,
                                           !.loading = FALSE]
                 ELSE resp' = [resp EXCEPT !.error = Some(served.code), !.loading = FALSE]
           \/ resp' = [resp EXCEPT !.error = Some("Network error"), !.loading = FALSE]
        /\ calls' = Ended(call)
        /\ UNCHANGED <<papers, now, rateLimitStore>>

LibraryNext ==
    \/ \E value \in {FULLY_READ} : toggleFilter("readingStages", value)
    \/ \E value \in {PHYSICS} : toggleFilter("domains", value)
    \/ \E value \in {"THIS_WEEK", ""} : setDateFilter(value)
    \/ clearFilters
    \/ handlePrevPage
    \/ handleNextPage
    \/ \E call \in BagToSet(calls) : fetchPapers(call)

LibrarySpec == LibraryInit /\ [][LibraryNext]_vars


\* C30: once no fetch of the Library page is in flight and none has failed since
\* the last selection, the papers and the total displayed are the listing of
\* the owner's papers for the filters and the page now selected: the response
\* to an earlier selection that arrives late has not replaced it.
C30_LatestSelectionDisplayed ==
    (resp.op = "Library" /\ calls = EmptyBag /\ resp.error = Null)
    => LET f0 == <<>>
           f1 == IF resp.filters.readingStages # <<>>
                 THEN With(f0, "readingStages", resp.filters.readingStages) ELSE f0
           f2 == IF resp.filters.domains # <<>>
                 THEN With(f1, "researchDomains", resp.filters.domains) ELSE f1
           f3 == IF resp.filters.impactScores # <<>>
                 THEN With(f2, "impactScores", resp.filters.impactScores) ELSE f2
           selected == IF resp.filters.dateRange # ""
                       THEN With(f3, "dateRange", resp.filters.dateRange) ELSE f3
       IN  \E result \in getPapers(papers, "u1", selected,
                                   [page |-> resp.page, pageSize |-> 10], now) :
              /\ resp.papers = result.items
              /\ resp.total = result.pagination.total

=============================================================================
